---- MODULE Spec2Model ----
(***************************************************************************)
(* The sync decision engine of ds-cloud-sync: one run of smart_sync        *)
(* (src/dscloudsync/sync_engine.py) over a local save file, the remote     *)
(* listing returned by rclone lsjson, the exit codes of the rclone         *)
(* subprocesses and the decision of the conflict resolver (Spec); and the  *)
(* application around the runs on one host, gui/app.py and main.py         *)
(* (AppSpec); the selection of the save file on each side, find_save_file  *)
(* and remote_find_save (SelSpec); the save root on disk with              *)
(* pick_profile_dir and backup_local_dir (FsSpec); the run under fairness  *)
(* of its steps (FairSpec); the result of ConflictDialog.ask over several  *)
(* conflicts, gui/dialogs.py (DlgSpec); the contents of the two saves      *)
(* through the directional copy and the final bisync (CpSpec); and the     *)
(* directory trees the commands copy, with the backups in them (TrSpec).   *)
(***************************************************************************)
EXTENDS Integers, Sequences, FiniteSets, TLC

VARIABLES
    localFile,      \* the save file find_save_file points at, as it is on disk
    remoteSave,     \* the save entry of the remote, as `rclone lsjson --hash` lists it
    resolverGiven,  \* conflict_resolver is not None (GUI: ConflictDialog.ask)
    pc,             \* position of the run inside smart_sync
    local_exists,   \* sync_engine.py:117
    remote_entry,   \* sync_engine.py:116
    remote_exists,  \* sync_engine.py:118
    equal,          \* sync_engine.py:129-138
    cmpExc,         \* the except clause of line 137 was taken
    choice,         \* sync_engine.py:148/151
    lb,             \* sync_engine.py:126, the timestamp token of the local backup
    rb,             \* sync_engine.py:127, the timestamp token of the remote backup
    now,            \* wall clock in whole seconds (iso_now)
    localBackups,   \* timestamp tokens of the local backups that exist on disk
    remoteBackups,  \* timestamp tokens of the remote backups that exist
    variantMade,    \* keep_both_variant wrote the machine-tagged copy
    cmds,           \* what the run has issued so far, in order
    path,           \* the orchestrator states the run has passed through
    result,         \* what smart_sync returned or raised
    cfgRemote,      \* "remote" in cfg (config.json)
    resynced,       \* cfg["resynced_hosts"][platform.node()]
    appPc,          \* the GUI process: "closed" or "open"
    startupPc,      \* position of the run_startup thread of App.startup
    syncThreads,    \* number of run_sync threads of App.on_sync in flight
    hostCmds,       \* the rclone commands issued on this host, in order
    cfgLoc,         \* cfg["remote"]: the remote location named (0: none)
    binPresent,     \* RCLONE_BIN exists on the host
    ensured,        \* ensure_rclone has returned in the GUI process
    threadLocs,     \* the remote each running run_sync thread was given
    lastMeta,       \* of the last command of hostCmds: its remote, and whether
                    \* ensure_rclone had returned in the process issuing it
    resyncedLocs,   \* the remotes a resync-mode bisync has succeeded against
    dirFiles,       \* the files of a profile directory: name -> mtime, 0 when absent
    listing,        \* the entries `rclone lsjson` returned for the remote directory
    selPc,          \* position in the two selections of smart_sync lines 115-116
    selLocal,       \* what find_save_file returned
    selRemote,      \* what remote_find_save returned
    root,           \* the save root: name -> its entry (profile directories, Backups)
    fsBackups,      \* the local backups under root/Backups: token and content
    fsClock,        \* wall clock in whole seconds, for mtimes and iso_now
    active,         \* the profile directory the program works on (local_dir)
    picks,          \* what the calls of pick_profile_dir returned, in order
    fsOp,           \* the last operation on the save root
    dlgResult,      \* ConflictDialog.result, the class attribute
    dlgLog,         \* the dialogs shown: how each was closed, what ask returned
    cpLocal,        \* the canonical save in the profile directory
    cpRemote,       \* the canonical save in the remote directory
    cpVariant,      \* the machine-tagged copy in the profile directory
    cpPc,           \* position of the divergent run
    cpChoice,       \* the decision of the divergent run
    cpDecided,      \* the two saves as they were when the decision was made
    cpClock,        \* wall clock, for the mtimes of new saves
    trLocal,        \* the paths of the files under local_dir
    trRemote,       \* the paths of the files under remote_dir
    trBackups,      \* the paths of the files under local_dir.parent/Backups
    trClock,        \* the second the clock shows, as an index of the tokens
    trPc            \* position of the run over the trees

runVars == <<localFile, remoteSave, resolverGiven, pc, local_exists,
             remote_entry, remote_exists, equal, cmpExc, choice, lb, rb, now,
             localBackups, remoteBackups, variantMade, cmds, path, result>>

appVars == <<cfgRemote, resynced, appPc, startupPc, syncThreads, hostCmds,
            cfgLoc, binPresent, ensured, threadLocs, lastMeta, resyncedLocs>>

selVars == <<dirFiles, listing, selPc, selLocal, selRemote>>

fsVars == <<root, fsBackups, fsClock, active, picks, fsOp>>

dlgVars == <<dlgResult, dlgLog>>

cpVars == <<cpLocal, cpRemote, cpVariant, cpPc, cpChoice, cpDecided, cpClock>>

trVars == <<trLocal, trRemote, trBackups, trClock, trPc>>

auxVars == <<selVars, fsVars, dlgVars, cpVars, trVars>>

vars == <<runVars, appVars, auxVars>>

(***************************************************************************)
(* Bounds and value sets                                                   *)
(***************************************************************************)
MaxClock == 2

\* An optional value is a sequence of length 0 or 1.
Nothing == <<>>
Some(x) == <<x>>
Opt(S) == {Nothing} \cup {Some(x) : x \in S}
Val(o) == o[1]

Contents == {"c1", "c2"}
Sizes == {0, 100, 200}

\* Content digests: equal exactly when the contents are.
Sha1Of(c) == <<"SHA-1", c>>

\* The "Size" field of a remote entry: an integer, missing, or a value int()
\* rejects (null, text).
SizeFields ==
    {[kind |-> "int", val |-> n] : n \in Sizes}
        \cup {[kind |-> "missing", val |-> 0], [kind |-> "bad", val |-> 0]}

\* A local save file: its content, byte size, and whether open() works when
\* the comparison, the preview and keep_both_variant read it (the game may
\* hold the file locked by then, whatever the backup before could do).
LocalFiles ==
    [content : Contents, size : Sizes, readable : BOOLEAN]

\* A remote entry as lsjson --hash reports it: the content the remote holds,
\* which of Hashes["SHA-1"] and Hashes["MD5"] the backend reports, and Size.
RemoteEntries ==
    [content : Contents, hasSha1 : BOOLEAN, hasMd5 : BOOLEAN, size : SizeFields]

Choices == {"keep-local", "use-cloud", "keep-both"}
Cancel == "cancel"          \* ConflictDialog.done(None)

Outputs == {"", "rclone output"}
ExitCodes == {0, 1}

\* One entry of the run's log: an operation and its exit code (1: it failed).
Ev(op, rc) == [op |-> op, rc |-> rc]

\* The entry of a command run with check=True: the output run() captured from
\* the process (stdout and stderr merged) is kept with it.
EvOut(op, rc, out) == [op |-> op, rc |-> rc, out |-> out]

Running == [text |-> "running", raised |-> FALSE, lb |-> Nothing, rb |-> Nothing,
            msg |-> <<>>]

Returned(text) ==
    [text |-> text, raised |-> FALSE, lb |-> Nothing, rb |-> Nothing, msg |-> <<>>]

Raised(exc, msg) ==
    [text |-> exc, raised |-> TRUE, lb |-> Nothing, rb |-> Nothing, msg |-> msg]

(***************************************************************************)
(* utils.py                                                                *)
(***************************************************************************)
\* run: error_msg = output.strip() or f"Command failed: {safe_cmd}"
RunErrorMsg(cmd, out) ==
    IF out # "" THEN <<"output", out>> ELSE <<"Command failed", cmd>>

\* A run() that does not look at the exit code.
RunChecked_NeverRaises(cmd, rc, out) == Nothing

\* run(cmd, check=True): the exception raised, if any.
RunChecked(cmd, rc, out) ==
    IF rc # 0 THEN Some(Raised("RuntimeError", RunErrorMsg(cmd, out))) ELSE Nothing

\* iso_now: the clock read at a call, no earlier than the last reading.
ClockReadings == {t \in now .. now + 1 : t <= MaxClock}

\* file_sha1(path): the digest, or an exception when the file cannot be opened.
FileSha1(f) ==
    IF f = Nothing \/ ~Val(f).readable
        THEN [exc |-> TRUE, digest |-> Nothing]
        ELSE [exc |-> FALSE, digest |-> Some(Sha1Of(Val(f).content))]

(***************************************************************************)
(* rclone_manager.py                                                       *)
(***************************************************************************)
\* A bisync that drops its resync flag.
BisyncCmd_NeverResync(resync) == "bisync"

\* A bisync that always passes --resync.
BisyncCmd_AlwaysResync(resync) == "bisync --resync"

\* bisync: ensure_remote_dir (exit code ignored), then the bisync command.
BisyncCmd(resync) == IF resync THEN "bisync --resync" ELSE "bisync"

\* The options of the bisync command line, lines 172-188.
BisyncOptions(resync) ==
    IF resync
        THEN {"--resync", "--create-empty-src-dirs", "--verbose"}
        ELSE {"--create-empty-src-dirs", "--compare", "--conflict-resolve",
              "--verbose"}

BisyncCmds(resync, rcMkdir, rc, out) ==
    <<Ev("mkdir", rcMkdir), EvOut(BisyncCmd(resync), rc, out)>>

(***************************************************************************)
(* sync_engine.py                                                          *)
(***************************************************************************)
\* A listing that is used whether or not the query succeeded.
RemoteFindSave_IgnoresFailure(ok) == remoteSave

\* remote_find_save: the save entry of the listing.  rclone_lsjson returns []
\* when the query fails or its output does not parse, and then there is none.
RemoteFindSave(ok) == IF ok THEN remoteSave ELSE Nothing

\* `or` written for `and` in line 120.
BothAbsent_EitherAbsent(le, re) == ~le \/ ~re

\* line 120
BothAbsent(le, re) == ~le /\ ~re

\* line 132: r_hash = (remote_entry.get("Hashes") or {}).get("SHA-1")
RHash(e) == IF e.hasSha1 THEN Some(Sha1Of(e.content)) ELSE Nothing

\* The default of preview_text (line 68), get("Size", 0), used in line 136.
SizeOrMinusOne_DefaultZero(e) ==
    CASE e.size.kind = "int" -> [exc |-> FALSE, val |-> e.size.val]
      [] e.size.kind = "missing" -> [exc |-> FALSE, val |-> 0]
      [] OTHER -> [exc |-> TRUE, val |-> -1]

\* line 136: int(remote_entry.get("Size", -1))
SizeOrMinusOne(e) ==
    CASE e.size.kind = "int" -> [exc |-> FALSE, val |-> e.size.val]
      [] e.size.kind = "missing" -> [exc |-> FALSE, val |-> -1]
      [] OTHER -> [exc |-> TRUE, val |-> -1]

\* An equality decision that rejects on a size mismatch before it looks at the
\* digest.
AreEqual_SizeFirst(f, e) ==
    LET s == SizeOrMinusOne(e)
        x == (f = Nothing) \/ s.exc
    IN  IF x \/ Val(f).size # s.val
            THEN [exc |-> x, equal |-> FALSE]
            ELSE IF RHash(e) # Nothing
                     THEN LET h == FileSha1(f)
                          IN  [exc |-> h.exc,
                               equal |-> ~h.exc /\ h.digest = RHash(e)]
                     ELSE [exc |-> FALSE, equal |-> TRUE]

\* lines 129-138: the equality decision for a local file (Nothing when it has
\* disappeared since line 117) and a remote entry.
AreEqual(f, e) ==
    IF RHash(e) # Nothing
        THEN LET h == FileSha1(f)
             IN  [exc |-> h.exc, equal |-> ~h.exc /\ h.digest = RHash(e)]
        ELSE LET s == SizeOrMinusOne(e)
                 x == (f = Nothing) \/ s.exc
             IN  [exc |-> x, equal |-> ~x /\ Val(f).size = s.val]

\* preview_text (lines 47-82) calls file_sha1 on the local file and int() on the
\* remote Size outside any try: the exception it raises, if any.
PreviewRaises(f, e) ==
    IF f # Nothing /\ ~Val(f).readable THEN Some("PermissionError")
    ELSE IF e # Nothing /\ Val(e).size.kind = "bad" THEN Some("ValueError")
    ELSE Nothing

\* line 153
CancelResult(l, r) ==
    [text |-> "Canceled. Backups:", raised |-> FALSE, lb |-> l, rb |-> r,
     msg |-> <<>>]

\* The use-cloud branch calling push_local_over_remote.
CopyFor_AlwaysPush(c) ==
    CASE c = "keep-local" -> "push"
      [] c = "use-cloud" -> "push"
      [] OTHER -> "none"

\* lines 155-163: the directional copy a decision selects.
CopyFor(c) ==
    CASE c = "keep-local" -> "push"
      [] c = "use-cloud" -> "pull"
      [] OTHER -> "none"

(***************************************************************************)
(* The state before a run: any local save file or none, any remote listing *)
(* or none, started from the GUI (resolver given) or from the CLI.         *)
(***************************************************************************)
\* Nothing selected: the selection functions are not under study.
SelAtRest ==
    /\ dirFiles = <<>>
    /\ listing = <<>>
    /\ selPc = "none"
    /\ selLocal = <<>>
    /\ selRemote = <<>>

\* No save root under study.
FsAtRest ==
    /\ root = <<>>
    /\ fsBackups = {}
    /\ fsClock = 0
    /\ active = <<>>
    /\ picks = <<>>
    /\ fsOp = "none"

\* No dialog has been shown in the process: `result = None` (dialogs.py line 10).
DlgAtRest ==
    /\ dlgResult = Cancel
    /\ dlgLog = <<>>

\* No pair of saves under study.
CpAtRest ==
    /\ cpLocal = <<>>
    /\ cpRemote = <<>>
    /\ cpVariant = <<>>
    /\ cpPc = "none"
    /\ cpChoice = "unset"
    /\ cpDecided = <<>>
    /\ cpClock = 0

\* No directory trees under study.
TrAtRest ==
    /\ trLocal = {}
    /\ trRemote = {}
    /\ trBackups = {}
    /\ trClock = 0
    /\ trPc = "none"

AuxAtRest == SelAtRest /\ FsAtRest /\ DlgAtRest /\ CpAtRest /\ TrAtRest

\* No application around the run: the GUI is closed and has issued nothing.
AppAtRest ==
    /\ appPc = "closed"
    /\ startupPc = "none"
    /\ syncThreads = 0
    /\ hostCmds = <<>>
    /\ ensured = FALSE
    /\ threadLocs = <<>>
    /\ lastMeta = <<>>
    /\ resyncedLocs = {}

\* smart_sync has not started.
RunAtStart ==
    /\ pc = "start"
    /\ local_exists = FALSE
    /\ remote_entry = Nothing
    /\ remote_exists = FALSE
    /\ equal = FALSE
    /\ cmpExc = FALSE
    /\ choice = "unset"
    /\ lb = Nothing
    /\ rb = Nothing
    /\ now = 0
    /\ localBackups = {}
    /\ remoteBackups = {}
    /\ variantMade = FALSE
    /\ cmds = <<>>
    /\ path = <<"Start">>
    /\ result = Running

Init ==
    /\ localFile \in Opt(LocalFiles)
    /\ remoteSave \in Opt(RemoteEntries)
    /\ resolverGiven \in BOOLEAN
    /\ cfgRemote = TRUE
    /\ cfgLoc = 1
    /\ binPresent = TRUE
    /\ resynced = FALSE
    /\ AppAtRest
    /\ AuxAtRest
    /\ RunAtStart

\* The run ends: smart_sync returns or raises.
Finish(r) ==
    /\ result' = r
    /\ pc' = "done"

\* A run that backed up only when both sides have a save.
FirstStep_BackupOnlyWhenBoth(le, re) ==
    IF BothAbsent(le, re) THEN "init_bisync"
    ELSE IF le /\ re THEN "backup_local"
    ELSE "compare"

\* A run that waits, after looking for the saves, for a signal nobody sends.
FirstStep_Waits(le, re) == "wait"

\* lines 120-125: the both-absent branch, else the backups come first.
FirstStep(le, re) ==
    IF BothAbsent(le, re) THEN "init_bisync" ELSE "backup_local"

\* lines 115-120: locate both saves and take the both-absent branch or not.
FindSaves ==
    /\ pc = "start"
    /\ UNCHANGED <<appVars, auxVars>>
    /\ \E ok \in BOOLEAN :
         LET entry == RemoteFindSave(ok)
             le == localFile # Nothing
             re == entry # Nothing
         IN  /\ remote_entry' = entry
             /\ local_exists' = le
             /\ remote_exists' = re
             /\ cmds' = Append(cmds, Ev("lsjson", IF ok THEN 0 ELSE 1))
             /\ pc' = FirstStep(le, re)
             /\ path' = Append(path, IF BothAbsent(le, re) THEN "BothAbsent"
                                                           ELSE "Comparing")
    /\ UNCHANGED <<localFile, remoteSave, resolverGiven, equal, cmpExc, choice,
                   lb, rb, now, localBackups, remoteBackups, variantMade, result>>

\* bisync(...) followed by `return text`: the commands it issues and how the
\* run ends.
BisyncThenReturn(resync, text) ==
    \E rcMkdir \in ExitCodes, rc \in ExitCodes, out \in Outputs :
        LET failed == RunChecked(BisyncCmd(resync), rc, out)
        IN  /\ cmds' = cmds \o BisyncCmds(resync, rcMkdir, rc, out)
            /\ IF failed # Nothing
                   THEN Finish(Val(failed))
                   ELSE Finish(Returned(text))

\* lines 121-123
InitBisync ==
    /\ pc = "init_bisync"
    /\ UNCHANGED <<appVars, auxVars>>
    /\ BisyncThenReturn(TRUE, "Initialized (no saves yet).")
    /\ UNCHANGED <<path, localFile, remoteSave, resolverGiven, local_exists,
                   remote_entry, remote_exists, equal, cmpExc, choice, lb, rb,
                   now, localBackups, remoteBackups, variantMade>>

\* A backup_local_dir that swallows the failure of copytree and returns the
\* path all the same.
BackupLocal_IgnoresFailure ==
    /\ pc = "backup_local"
    /\ UNCHANGED <<appVars, auxVars>>
    /\ \E t \in ClockReadings, ok \in BOOLEAN :
        /\ now' = t
        /\ cmds' = Append(cmds, Ev("backup_local", IF ok THEN 0 ELSE 1))
        /\ lb' = Some(t)
        /\ localBackups' = IF ok THEN localBackups \cup {t} ELSE localBackups
        /\ pc' = "backup_remote"
        /\ result' = result
    /\ UNCHANGED <<localFile, remoteSave, resolverGiven, local_exists,
                   remote_entry, remote_exists, equal, cmpExc, choice, rb,
                   remoteBackups, variantMade, path>>

\* lines 125-126, backup_local_dir: shutil.copytree either completes or raises.
BackupLocal ==
    /\ pc = "backup_local"
    /\ UNCHANGED <<appVars, auxVars>>
    /\ \E t \in ClockReadings, ok \in BOOLEAN :
        /\ now' = t
        /\ cmds' = Append(cmds, Ev("backup_local", IF ok THEN 0 ELSE 1))
        /\ IF ok
               THEN /\ lb' = Some(t)
                    /\ localBackups' = localBackups \cup {t}
                    /\ pc' = "backup_remote"
                    /\ result' = result
               ELSE /\ Finish(Raised("shutil.Error", <<"copytree">>))
                    /\ UNCHANGED <<lb, localBackups>>
    /\ UNCHANGED <<localFile, remoteSave, resolverGiven, local_exists,
                   remote_entry, remote_exists, equal, cmpExc, choice, rb,
                   remoteBackups, variantMade, path>>

\* A backup_remote_dir that runs its copy with check=True.
BackupRemote_Checked ==
    /\ pc = "backup_remote"
    /\ UNCHANGED <<appVars, auxVars>>
    /\ \E t \in ClockReadings, rc \in ExitCodes :
        /\ now' = t
        /\ cmds' = Append(cmds, Ev("backup_remote", rc))
        /\ IF rc = 0
               THEN /\ rb' = Some(t)
                    /\ remoteBackups' = remoteBackups \cup {t}
                    /\ pc' = "compare"
                    /\ result' = result
               ELSE /\ Finish(Raised("RuntimeError", RunErrorMsg("backup_remote", "")))
                    /\ UNCHANGED <<rb, remoteBackups>>
    /\ UNCHANGED <<localFile, remoteSave, resolverGiven, local_exists,
                   remote_entry, remote_exists, equal, cmpExc, choice, lb,
                   localBackups, variantMade, path>>

\* line 127, backup_remote_dir: run(..., check=False), the exit code is ignored.
BackupRemote ==
    /\ pc = "backup_remote"
    /\ UNCHANGED <<appVars, auxVars>>
    /\ \E t \in ClockReadings, rc \in ExitCodes :
        /\ now' = t
        /\ rb' = Some(t)
        /\ remoteBackups' = IF rc = 0 THEN remoteBackups \cup {t} ELSE remoteBackups
        /\ cmds' = Append(cmds, Ev("backup_remote", rc))
    /\ pc' = "compare"
    /\ UNCHANGED <<localFile, remoteSave, resolverGiven, local_exists,
                   remote_entry, remote_exists, equal, cmpExc, choice, lb,
                   localBackups, variantMade, path, result>>

\* The branches of line 140 swapped.
AfterCompare_Swapped(eq) == IF eq THEN "resolve" ELSE "equal_bisync"

\* line 140: `if equal:` leads to the "Up to date." branch, else to the decision.
AfterCompare(eq) == IF eq THEN "equal_bisync" ELSE "resolve"

\* lines 129-140: the equality check. The local file may have disappeared
\* since line 117 looked for it.
Compare ==
    /\ pc = "compare"
    /\ UNCHANGED <<appVars, auxVars>>
    /\ IF local_exists /\ remote_exists
           THEN \E gone \in BOOLEAN :
                    LET f == IF gone THEN Nothing ELSE localFile
                        r == AreEqual(f, Val(remote_entry))
                    IN  /\ localFile' = f
                        /\ equal' = r.equal
                        /\ cmpExc' = r.exc
                        /\ cmds' = Append(cmds, Ev("compare", IF r.exc THEN 1 ELSE 0))
           ELSE /\ equal' = FALSE
                /\ UNCHANGED <<localFile, cmpExc, cmds>>
    /\ pc' = AfterCompare(equal')
    /\ path' = Append(path, IF pc' = "equal_bisync" THEN "Equal" ELSE "Diverged")
    /\ UNCHANGED <<remoteSave, resolverGiven, local_exists, remote_entry,
                   remote_exists, choice, lb, rb, now, localBackups,
                   remoteBackups, variantMade, result>>

\* lines 141-143
EqualBisync ==
    /\ pc = "equal_bisync"
    /\ UNCHANGED <<appVars, auxVars>>
    /\ BisyncThenReturn(FALSE, "Up to date.")
    /\ UNCHANGED <<path, localFile, remoteSave, resolverGiven, local_exists,
                   remote_entry, remote_exists, equal, cmpExc, choice, lb, rb,
                   now, localBackups, remoteBackups, variantMade>>

\* line 150: preview_text(local_save if local_exists else None,
\*                        remote_entry if remote_exists else None)
PreviewOf ==
    PreviewRaises(IF local_exists THEN localFile ELSE Nothing,
                  IF remote_exists THEN remote_entry ELSE Nothing)

\* The early return of line 153 left out.
StopsOnCancel_Never(c) == FALSE

\* line 152: `if choice is None: return`
StopsOnCancel(c) == c = Cancel

\* A run without resolver that takes the cloud's side.
DefaultChoice_UseCloud == "use-cloud"

\* line 148: `choice = "keep-local"` when conflict_resolver is None
DefaultChoice == "keep-local"

\* lines 145-153: the decision. Without a resolver it is keep-local; with one,
\* preview_text is built first and the resolver's answer is taken.
Resolve ==
    /\ pc = "resolve"
    /\ UNCHANGED <<appVars, auxVars>>
    /\ IF ~resolverGiven
           THEN /\ choice' = DefaultChoice
                /\ pc' = "act"
                /\ path' = Append(path, "Resolving")
                /\ UNCHANGED <<cmds, result>>
           ELSE IF PreviewOf # Nothing
                    THEN /\ Finish(Raised(Val(PreviewOf), <<"preview_text">>))
                         /\ path' = Append(path, "Resolving")
                         /\ UNCHANGED <<choice, cmds>>
                    ELSE \E c \in Choices \cup {Cancel} :
                            /\ choice' = c
                            /\ cmds' = Append(cmds, Ev("resolver", 0))
                            /\ IF StopsOnCancel(c)
                                   THEN /\ Finish(CancelResult(lb, rb))
                                        /\ path' = path \o <<"Resolving", "Canceled">>
                                   ELSE /\ pc' = "act"
                                        /\ path' = Append(path, "Resolving")
                                        /\ result' = result
    /\ UNCHANGED <<localFile, remoteSave, resolverGiven, local_exists,
                   remote_entry, remote_exists, equal, cmpExc, lb, rb, now,
                   localBackups, remoteBackups, variantMade>>

\* A keep_both_variant that renames the save to the tagged name.
KeepBothVariant_Renames(f) ==
    IF f = Nothing
        THEN [called |-> FALSE, exc |-> FALSE, made |-> FALSE, original |-> f]
        ELSE [called |-> TRUE, exc |-> FALSE, made |-> TRUE, original |-> Nothing]

\* keep_both_variant (lines 95-103) for a path that is None or no longer
\* exists (Nothing) or a file: shutil.copy2 to the machine-tagged name, which
\* leaves the file it reads as it is and raises when it cannot open it.
KeepBothVariant(f) ==
    IF f = Nothing
        THEN [called |-> FALSE, exc |-> FALSE, made |-> FALSE, original |-> f]
        ELSE IF Val(f).readable
                 THEN [called |-> TRUE, exc |-> FALSE, made |-> TRUE, original |-> f]
                 ELSE [called |-> TRUE, exc |-> TRUE, made |-> FALSE, original |-> f]

\* lines 155-163: push, pull, or the machine-tagged copy of keep_both_variant.
Act ==
    /\ pc = "act"
    /\ UNCHANGED <<appVars, auxVars>>
    /\ IF CopyFor(choice) # "none"
           THEN \E rc \in ExitCodes, out \in Outputs :
                    LET failed == RunChecked(CopyFor(choice), rc, out)
                    IN  /\ cmds' = Append(cmds, EvOut(CopyFor(choice), rc, out))
                        /\ IF failed # Nothing
                               THEN Finish(Val(failed))
                               ELSE pc' = "final_bisync" /\ result' = result
                        /\ UNCHANGED <<localFile, variantMade>>
           ELSE IF choice = "keep-both"
                    THEN LET k == KeepBothVariant(IF local_exists THEN localFile
                                                                  ELSE Nothing)
                         IN  /\ localFile' = k.original
                             /\ variantMade' = (variantMade \/ k.made)
                             /\ cmds' = IF k.called
                                            THEN Append(cmds, Ev("copy2", IF k.exc THEN 1 ELSE 0))
                                            ELSE cmds
                             /\ IF k.exc
                                    THEN Finish(Raised("PermissionError", <<"copy2">>))
                                    ELSE pc' = "final_bisync" /\ result' = result
                    ELSE /\ pc' = "final_bisync"
                         /\ UNCHANGED <<localFile, cmds, variantMade, result>>
    /\ path' = IF pc' = "final_bisync" THEN Append(path, "Reconciling") ELSE path
    /\ UNCHANGED <<remoteSave, resolverGiven, local_exists, remote_entry,
                   remote_exists, equal, cmpExc, choice, lb, rb, now,
                   localBackups, remoteBackups>>

\* lines 165-167
FinalBisync ==
    /\ pc = "final_bisync"
    /\ UNCHANGED <<appVars, auxVars>>
    /\ BisyncThenReturn(FALSE, "Sync complete.")
    /\ path' = IF result'.raised THEN path ELSE Append(path, "Done")
    /\ UNCHANGED <<localFile, remoteSave, resolverGiven, local_exists,
                   remote_entry, remote_exists, equal, cmpExc, choice, lb, rb,
                   now, localBackups, remoteBackups, variantMade>>

Next ==
    \/ FindSaves
    \/ InitBisync
    \/ BackupLocal
    \/ BackupRemote
    \/ Compare
    \/ EqualBisync
    \/ Resolve
    \/ Act
    \/ FinalBisync

Spec == Init /\ [][Next]_vars

\* smart_sync is straight-line code on one thread: when every subprocess
\* exits and the resolver returns, the step it is at is taken.
FairSpec == Spec /\ WF_vars(Next)

TypeOK ==
    /\ localFile \in Opt(LocalFiles)
    /\ remoteSave \in Opt(RemoteEntries)
    /\ remote_entry \in Opt(RemoteEntries)
    /\ lb \in Opt(0 .. MaxClock + 1)
    /\ rb \in Opt(0 .. MaxClock + 1)
    /\ pc \in {"start", "init_bisync", "backup_local", "backup_remote", "compare",
               "equal_bisync", "resolve", "act", "final_bisync", "done"}

(***************************************************************************)
(* The application around the runs (gui/app.py, main.py): launches of the  *)
(* GUI, its startup thread with the one-time resync, "Sync now" clicks,    *)
(* scheduled CLI syncs, all on one host.  A run of smart_sync appears here *)
(* by the bisync commands it issues.                                       *)
(***************************************************************************)
MaxThreads == 2
MaxHostCmds == 2

\* The saves the host's behaviours start from: none or one on either side.
AppLocalFile == [content |-> "c1", size |-> 100, readable |-> TRUE]
AppRemoteEntry ==
    [content |-> "c2", hasSha1 |-> TRUE, hasMd5 |-> FALSE,
     size |-> [kind |-> "int", val |-> 100]]

\* The remote locations a config may name: the one run_startup adopts from
\* an existing rclone remote (line 179) and another the wizard can be given.
Remotes == {1, 2}
AdoptedRemote == 1

\* A command issued on the host: by the startup thread, a GUI run, a preview
\* or a CLI run.
HostCmd(mode, by, rc) == [mode |-> mode, by |-> by, rc |-> rc]

\* The bisync commands a run of smart_sync may issue: the resync one when both
\* sides have no save (lines 120-123); otherwise the steady one of line 142 or
\* line 166, or none when the run is canceled or fails before it.
SmartSyncBisyncs(le, re, by) ==
    IF BothAbsent(le, re)
        THEN {<<HostCmd(BisyncCmd(TRUE), by, rc)>> : rc \in ExitCodes}
        ELSE {<<>>} \cup {<<HostCmd(BisyncCmd(FALSE), by, rc)>> : rc \in ExitCodes}

\* The commands bs are issued against the remote loc by a process in which
\* ensure_rclone had returned or not.
Issue(bs, loc, ens) ==
    /\ Len(hostCmds) + Len(bs) <= MaxHostCmds
    /\ hostCmds' = hostCmds \o bs
    /\ lastMeta' = IF bs = <<>> THEN lastMeta
                   ELSE Some([remote |-> loc, ensured |-> ens])
    /\ resyncedLocs' =
         IF \E i \in DOMAIN bs : bs[i].mode = BisyncCmd(TRUE) /\ bs[i].rc = 0
             THEN resyncedLocs \cup {loc}
             ELSE resyncedLocs

\* A flag that is set whatever the resync did.
FlagAfterResync_Always(flag, rc) == TRUE

\* run_startup lines 199-203: the flag is set once bisync has returned.
FlagAfterResync(flag, rc) == flag \/ rc = 0

\* A host on which the program has just been installed.
AppInit ==
    /\ localFile \in {Nothing, Some(AppLocalFile)}
    /\ remoteSave \in {Nothing, Some(AppRemoteEntry)}
    /\ resolverGiven = TRUE
    /\ cfgRemote = FALSE
    /\ cfgLoc = 0
    /\ binPresent = FALSE
    /\ resynced = FALSE
    /\ AppAtRest
    /\ AuxAtRest
    /\ RunAtStart

\* main(): App() loads the config and schedules startup.
Launch ==
    /\ appPc = "closed"
    /\ appPc' = "open"
    /\ startupPc' = "ensure"
    /\ UNCHANGED <<cfgRemote, resynced, syncThreads, hostCmds, cfgLoc,
                   binPresent, ensured, threadLocs, lastMeta, resyncedLocs,
                   runVars, auxVars>>

\* run_startup up to its call of bisync: ensure_rclone (the download when the
\* binary is missing, then `rclone version`), the remote of the config (an
\* existing rclone remote is adopted, else the wizard is shown and the thread
\* returns), then the per-host flag.
Startup ==
    /\ appPc = "open"
    /\ startupPc = "ensure"
    /\ \E outcome \in {"ok", "no_binary", "version_failed"}, found \in BOOLEAN :
        /\ outcome = "no_binary" => ~binPresent
        /\ binPresent' = (binPresent \/ outcome # "no_binary")
        /\ ensured' = (outcome = "ok")
        /\ IF outcome # "ok"
             THEN /\ startupPc' = "error"
                  /\ UNCHANGED <<cfgRemote, cfgLoc>>
             ELSE IF ~cfgRemote /\ ~found
                 THEN /\ startupPc' = "wizard"
                      /\ UNCHANGED <<cfgRemote, cfgLoc>>
                 ELSE /\ cfgRemote' = TRUE
                      /\ cfgLoc' = IF cfgRemote THEN cfgLoc ELSE AdoptedRemote
                      /\ startupPc' = IF ~resynced THEN "resync" ELSE "finished"
    /\ UNCHANGED <<resynced, appPc, syncThreads, hostCmds, threadLocs, lastMeta,
                   resyncedLocs, runVars, auxVars>>

\* run_startup, lines 198-208: bisync(resync=True) returns and the flag is set
\* and saved, or it raises and a warning is shown.
StartupResyncEnds ==
    /\ appPc = "open"
    /\ startupPc = "resync"
    /\ \E rc \in ExitCodes :
        /\ Issue(<<HostCmd(BisyncCmd(TRUE), "startup", rc)>>, cfgLoc, ensured)
        /\ resynced' = FlagAfterResync(resynced, rc)
    /\ startupPc' = "finished"
    /\ UNCHANGED <<cfgRemote, appPc, syncThreads, cfgLoc, binPresent, ensured,
                   threadLocs, runVars, auxVars>>

\* The progress dialog of run_startup is open: it is shown while rclone is
\* downloaded (line 143) and during the resync (line 190), and it holds the
\* grab (dialogs.py line 233), so the main window's buttons cannot be used.
ModalOpen ==
    \/ startupPc = "resync"
    \/ startupPc = "ensure" /\ ~binPresent

\* connect_wizard with a successful setup: the remote the user chose is
\* written to the config.
ConnectWizard ==
    /\ appPc = "open"
    /\ ~ModalOpen
    /\ cfgRemote' = TRUE
    /\ cfgLoc' \in Remotes
    /\ UNCHANGED <<resynced, appPc, startupPc, syncThreads, hostCmds, binPresent,
                   ensured, threadLocs, lastMeta, resyncedLocs, runVars, auxVars>>

\* on_sync: with a remote configured, every click starts a run_sync thread.
OnSync ==
    /\ appPc = "open"
    /\ ~ModalOpen
    /\ cfgRemote
    /\ syncThreads < MaxThreads
    /\ syncThreads' = syncThreads + 1
    /\ threadLocs' = Append(threadLocs, cfgLoc)
    /\ UNCHANGED <<cfgRemote, resynced, appPc, startupPc, hostCmds, cfgLoc,
                   binPresent, ensured, lastMeta, resyncedLocs, runVars, auxVars>>

\* threadLocs without its k-th element.
Without(q, k) == [i \in 1 .. Len(q) - 1 |-> IF i < k THEN q[i] ELSE q[i + 1]]

\* A run_sync thread comes to the end of its smart_sync.  Without the binary
\* no command of the run can be executed and the run raises.
RunSyncEnds ==
    /\ appPc = "open"
    /\ syncThreads > 0
    /\ \E k \in DOMAIN threadLocs, ok \in BOOLEAN :
         \E bs \in IF binPresent
                     THEN SmartSyncBisyncs(localFile # Nothing,
                                           RemoteFindSave(ok) # Nothing, "gui")
                     ELSE {<<>>} :
            /\ Issue(bs, threadLocs[k], ensured)
            /\ threadLocs' = Without(threadLocs, k)
    /\ syncThreads' = syncThreads - 1
    /\ UNCHANGED <<cfgRemote, resynced, appPc, startupPc, cfgLoc, binPresent,
                   ensured, runVars, auxVars>>

\* on_preview: with a remote configured, remote_find_save lists the remote
\* from the main thread.
OnPreview ==
    /\ appPc = "open"
    /\ ~ModalOpen
    /\ cfgRemote
    /\ binPresent
    /\ \E rc \in ExitCodes :
        Issue(<<HostCmd("lsjson", "preview", rc)>>, cfgLoc, ensured)
    /\ UNCHANGED <<cfgRemote, resynced, appPc, startupPc, syncThreads, cfgLoc,
                   binPresent, ensured, threadLocs, runVars, auxVars>>

\* cli_sync_mode: a scheduled `--sync` process, from its start to its end.
\* It ends at once when ensure_rclone raises.
CliSync ==
    /\ cfgRemote
    /\ \E ensureOk \in BOOLEAN :
        /\ binPresent' = (binPresent \/ ensureOk)
        /\ \E ok \in BOOLEAN :
             \E bs \in IF ensureOk
                         THEN SmartSyncBisyncs(localFile # Nothing,
                                               RemoteFindSave(ok) # Nothing, "cli")
                         ELSE {<<>>} :
                Issue(bs, cfgLoc, TRUE)
    /\ UNCHANGED <<cfgRemote, resynced, appPc, startupPc, syncThreads, cfgLoc,
                   ensured, threadLocs, runVars, auxVars>>

\* on_close: the window is destroyed, the daemon threads end with the process.
Close ==
    /\ appPc = "open"
    /\ appPc' = "closed"
    /\ startupPc' = "none"
    /\ syncThreads' = 0
    /\ threadLocs' = <<>>
    /\ ensured' = FALSE
    /\ UNCHANGED <<cfgRemote, resynced, hostCmds, cfgLoc, binPresent, lastMeta,
                   resyncedLocs, runVars, auxVars>>

AppNext ==
    \/ Launch
    \/ Startup
    \/ StartupResyncEnds
    \/ ConnectWizard
    \/ OnSync
    \/ RunSyncEnds
    \/ OnPreview
    \/ CliSync
    \/ Close

AppSpec == AppInit /\ [][AppNext]_vars

AppTypeOK ==
    /\ cfgRemote \in BOOLEAN
    /\ resynced \in BOOLEAN
    /\ appPc \in {"closed", "open"}
    /\ startupPc \in {"none", "ensure", "resync", "finished", "error", "wizard"}
    /\ syncThreads \in 0 .. MaxThreads
    /\ Len(threadLocs) = syncThreads
    /\ cfgLoc \in {0} \cup Remotes
    /\ cfgRemote <=> cfgLoc # 0
    /\ ensured => binPresent
    /\ Len(hostCmds) <= MaxHostCmds

(***************************************************************************)
(* The two selections that open a run (smart_sync lines 115-116):          *)
(* find_save_file over the files of the profile directory, then            *)
(* remote_find_save over the listing of the remote directory.  A file name *)
(* is a pair of stem and extension.                                        *)
(***************************************************************************)
MaxMtime == 2
MaxListing == 2

SAVE_BASENAMES == <<(<<"DS2SOFS0000", "sl2">>), (<<"DARKSII0000", "sl2">>)>>

FileNames ==
    {SAVE_BASENAMES[1], SAVE_BASENAMES[2], <<"a", "sl2">>, <<"b", "sl2">>,
     <<"a", "txt">>}

\* A profile directory: the mtime of each file, 0 for a file that is not there.
Dirs == [FileNames -> 0 .. MaxMtime]

ListedNames == {SAVE_BASENAMES[1], SAVE_BASENAMES[2], <<"a", "sl2">>}
ListedEntries == [name : ListedNames, isDir : BOOLEAN]
Listings == UNION {[1 .. n -> ListedEntries] : n \in 0 .. MaxListing}

MinOf(S) == CHOOSE i \in S : \A j \in S : i <= j
MaxOf(S) == CHOOSE i \in S : \A j \in S : j <= i

\* Path.exists()
Exists(d, n) == d[n] > 0

\* dir_path.glob("*.<ext>")
Glob(d, ext) == {n \in DOMAIN d : Exists(d, n) /\ n[2] = ext}

\* min written for max.
Newest_Oldest(d, F) == {n \in F : \A m \in F : d[n] <= d[m]}

\* max(files, key=st_mtime): a file no other is newer than (among equals,
\* the first in glob's order, which the file system decides).
Newest(d, F) == {n \in F : \A m \in F : d[m] <= d[n]}

\* A find_save_file that looks at modification times before names.
FindSaveFile_NewestFirst(d) ==
    IF Glob(d, "sl2") # {} THEN Newest(d, Glob(d, "sl2"))
    ELSE {SAVE_BASENAMES[1]}

\* find_save_file: the names it may return.
FindSaveFile(d) ==
    LET C == {i \in DOMAIN SAVE_BASENAMES : Exists(d, SAVE_BASENAMES[i])}
    IN  IF C # {} THEN {SAVE_BASENAMES[MinOf(C)]}
        ELSE IF Glob(d, "sl2") # {} THEN Newest(d, Glob(d, "sl2"))
        ELSE {SAVE_BASENAMES[1]}

\* remote_find_save lines 19-23: name -> entry over the non-directory entries;
\* a later entry of the same name replaces an earlier one.
FilesByName(l) ==
    LET F == {i \in DOMAIN l : ~l[i].isDir}
    IN  [n \in {l[i].name : i \in F} |-> l[MaxOf({i \in F : l[i].name = n})]]

\* A remote_find_save without the IsDir filter.
RemoteFindSaveIn_KeepsDirs(l) ==
    LET C == {i \in DOMAIN SAVE_BASENAMES :
                \E j \in DOMAIN l : l[j].name = SAVE_BASENAMES[i]}
    IN  IF C = {} THEN Nothing
        ELSE Some(l[MaxOf({j \in DOMAIN l : l[j].name = SAVE_BASENAMES[MinOf(C)]})])

\* remote_find_save over a listing: the entry of the first canonical name.
RemoteFindSaveIn(l) ==
    LET f == FilesByName(l)
        C == {i \in DOMAIN SAVE_BASENAMES : SAVE_BASENAMES[i] \in DOMAIN f}
    IN  IF C = {} THEN Nothing ELSE Some(f[SAVE_BASENAMES[MinOf(C)]])

\* No run and no application: only the functions are exercised.
RunAtRest ==
    /\ localFile = Nothing
    /\ remoteSave = Nothing
    /\ resolverGiven = FALSE
    /\ RunAtStart

AppNotInstalled ==
    /\ cfgRemote = FALSE
    /\ cfgLoc = 0
    /\ binPresent = FALSE
    /\ resynced = FALSE
    /\ AppAtRest

SelInit ==
    /\ dirFiles \in Dirs
    /\ listing \in Listings
    /\ selPc = "find_local"
    /\ selLocal = <<>>
    /\ selRemote = <<>>
    /\ FsAtRest
    /\ DlgAtRest
    /\ CpAtRest
    /\ TrAtRest
    /\ RunAtRest
    /\ AppNotInstalled

\* line 115 and line 117: local_save and local_save.exists()
FindSaveFileCall ==
    /\ selPc = "find_local"
    /\ \E n \in FindSaveFile(dirFiles) :
         selLocal' = Some([name |-> n, exists |-> Exists(dirFiles, n)])
    /\ selPc' = "find_remote"
    /\ UNCHANGED <<dirFiles, listing, selRemote, runVars, appVars, fsVars, dlgVars,
                   cpVars, trVars>>

\* line 116
RemoteFindSaveCall ==
    /\ selPc = "find_remote"
    /\ selRemote' = RemoteFindSaveIn(listing)
    /\ selPc' = "done"
    /\ UNCHANGED <<dirFiles, listing, selLocal, runVars, appVars, fsVars, dlgVars,
                   cpVars, trVars>>

SelNext ==
    \/ FindSaveFileCall
    \/ RemoteFindSaveCall

SelSpec == SelInit /\ [][SelNext]_vars

SelTypeOK ==
    /\ dirFiles \in Dirs
    /\ listing \in Listings
    /\ selPc \in {"find_local", "find_remote", "done"}
    /\ selLocal \in Opt([name : FileNames, exists : BOOLEAN])
    /\ selRemote \in Opt(ListedEntries)

(***************************************************************************)
(* The save root on disk (save_detection.py, backup_local_dir): the        *)
(* directories under it, each with its mtime and the mtimes of the *.sl2   *)
(* files directly inside; pick_profile_dir choosing the profile directory, *)
(* backup_local_dir copying it to the sibling Backups/local-<token>, and   *)
(* saves being written.  A name is its text with its length.               *)
(***************************************************************************)
MaxFsClock == 3
MaxPicks == 2
MinNameLength == 5

RootName(text, len) == [text |-> text, len |-> len]
PlaceholderProfile == RootName("0000000000000000", 16)
SteamProfile == RootName("0110000105a1b2c3", 16)
BackupsDir == RootName("Backups", 7)
ShortDir == RootName("cache", 5)
RootNames == {PlaceholderProfile, SteamProfile, BackupsDir, ShortDir}

Absent == [kind |-> "none", mtime |-> 0, saves |-> {}]
DirEntry(m, S) == [kind |-> "dir", mtime |-> m, saves |-> S]

\* What the game and the user left before the program first ran.
InitTimes == {1, 2}
InitEntries ==
    {Absent} \cup {DirEntry(m, S) : m \in InitTimes, S \in {{}, {1}, {2}}}

\* line 139: the directories of root whose name is longer than 5
ProfileDirs(r) ==
    {n \in DOMAIN r : r[n].kind = "dir" /\ n.len > MinNameLength}

\* line 153: the mtime of the most recent *.sl2 of a directory
NewestSave(e) == MaxOf(e.saves)

\* A pick_profile_dir that takes any directory for a profile.
PickProfileDir_AnyDir(r, t) ==
    LET P == {n \in DOMAIN r : r[n].kind = "dir"}
        W == {n \in P : r[n].saves # {}}
    IN  IF P = {}
            THEN {[dir |-> PlaceholderProfile,
                   root |-> [r EXCEPT ![PlaceholderProfile] = DirEntry(t, {})]]}
        ELSE IF W # {}
            THEN {[dir |-> n, root |-> r] :
                    n \in {m \in W : \A k \in W :
                                NewestSave(r[k]) <= NewestSave(r[m])}}
        ELSE {[dir |-> n, root |-> r] :
                    n \in {m \in P : \A k \in P : r[k].mtime <= r[m].mtime}}

\* A pick_profile_dir that goes by the directories' own mtimes.
PickProfileDir_ByDirMtime(r, t) ==
    LET P == ProfileDirs(r)
    IN  IF P = {}
            THEN {[dir |-> PlaceholderProfile,
                   root |-> [r EXCEPT ![PlaceholderProfile] = DirEntry(t, {})]]}
        ELSE {[dir |-> n, root |-> r] :
                    n \in {m \in P : \A k \in P : r[k].mtime <= r[m].mtime}}

\* pick_profile_dir at time t: the directory returned and the root it leaves.
\* Among candidates of equal key the first in glob's order is returned.
PickProfileDir(r, t) ==
    LET P == ProfileDirs(r)
        W == {n \in P : r[n].saves # {}}
    IN  IF P = {}
            THEN {[dir |-> PlaceholderProfile,
                   root |-> [r EXCEPT ![PlaceholderProfile] = DirEntry(t, {})]]}
        ELSE IF W # {}
            THEN {[dir |-> n, root |-> r] :
                    n \in {m \in W : \A k \in W :
                                NewestSave(r[k]) <= NewestSave(r[m])}}
        ELSE {[dir |-> n, root |-> r] :
                    n \in {m \in P : \A k \in P : r[k].mtime <= r[m].mtime}}

\* A backup name without the timestamp.
BackupToken_Fixed(t) == 0

\* backup_local_dir line 35: f"local-{iso_now()}", one name per second
BackupToken(t) == t

\* A root as the game leaves it: no Backups directory yet.
FsInit ==
    /\ root \in {r \in [RootNames -> InitEntries] :
                    /\ r[BackupsDir] = Absent
                    /\ r[ShortDir] \in {Absent, DirEntry(1, {})}}
    /\ fsBackups = {}
    /\ fsClock = 2
    /\ active = <<>>
    /\ picks = <<>>
    /\ fsOp = "none"
    /\ SelAtRest
    /\ DlgAtRest
    /\ CpAtRest
    /\ TrAtRest
    /\ RunAtRest
    /\ AppNotInstalled

\* App.__init__ / cli_sync_mode: profile = pick_profile_dir(local_root)
PickProfileDirCall ==
    /\ Len(picks) < MaxPicks
    /\ \E r \in PickProfileDir(root, fsClock) :
        /\ root' = r.root
        /\ active' = Some(r.dir)
        /\ picks' = Append(picks, r.dir)
    /\ fsOp' = "pick"
    /\ UNCHANGED <<fsBackups, fsClock, selVars, runVars, appVars,
                   dlgVars, cpVars, trVars>>

\* backup_local_dir(local_dir): copytree to local_dir.parent/Backups/local-<token>
\* with dirs_exist_ok=True, so that an existing directory of that name is
\* merged into.  copytree lists the source, makes the directories, copies
\* file by file and raises at the end: a failure leaves nothing or a part.
BackupLocalDirCall ==
    /\ active # Nothing
    /\ \E outcome \in {"copied", "partial", "unlisted"} :
        IF outcome = "unlisted"
        THEN /\ fsOp' = "backup_failed"
             /\ UNCHANGED <<root, fsBackups>>
        ELSE \E copied \in IF outcome = "copied"
                                THEN {root[Val(active)].saves}
                                ELSE SUBSET root[Val(active)].saves :
            LET t == BackupToken(fsClock)
                there == {b \in fsBackups : b.token = t}
                fresh == there = {}
                kept == UNION {b.saves : b \in there}
            IN  /\ fsBackups' = (fsBackups \ there)
                                    \cup {[token |-> t, saves |-> kept \cup copied]}
                /\ root' = [root EXCEPT ![BackupsDir] =
                                IF fresh THEN DirEntry(fsClock, @.saves) ELSE @]
                /\ fsOp' = IF outcome = "copied" THEN "backup" ELSE "backup_failed"
    /\ UNCHANGED <<fsClock, active, picks, selVars, runVars, appVars,
                   dlgVars, cpVars, trVars>>

\* The game, or rclone at the end of a run, writes a save into the profile.
SaveWritten ==
    /\ active # Nothing
    /\ root' = [root EXCEPT ![Val(active)] = DirEntry(fsClock, @.saves \cup {fsClock})]
    /\ fsOp' = "save"
    /\ UNCHANGED <<fsBackups, fsClock, active, picks, selVars, runVars, appVars,
                   dlgVars, cpVars, trVars>>

\* A second passes.
FsTick ==
    /\ fsClock < MaxFsClock
    /\ fsClock' = fsClock + 1
    /\ fsOp' = "tick"
    /\ UNCHANGED <<root, fsBackups, active, picks, selVars, runVars, appVars,
                   dlgVars, cpVars, trVars>>

FsNext ==
    \/ PickProfileDirCall
    \/ BackupLocalDirCall
    \/ SaveWritten
    \/ FsTick

FsSpec == FsInit /\ [][FsNext]_vars

FsTypeOK ==
    /\ DOMAIN root = RootNames
    /\ \A n \in RootNames : root[n].kind \in {"none", "dir"}
    /\ fsClock \in 2 .. MaxFsClock
    /\ active \in Opt(RootNames)
    /\ Len(picks) <= MaxPicks

(***************************************************************************)
(* The conflict dialog (gui/dialogs.py): the dialogs one process shows,    *)
(* one after the other, each closed by a button, by the Escape key or by   *)
(* the window manager, and what ConflictDialog.ask returns for each.       *)
(***************************************************************************)
MaxAsks == 3

\* The four buttons, the Escape key, and the window manager's close button.
Gestures == {"keep-local", "use-cloud", "keep-both", "cancel", "escape", "close"}

\* lines 35-59: what the button or the key passes to done
DoneValue(g) == IF g \in Choices THEN g ELSE Cancel

\* lines 63-66 and 77-79: done stores its value in the class attribute and
\* destroys the dialog; the window manager's close destroys it without done;
\* ask returns the class attribute.
AskResult(prev, g) == IF g = "close" THEN prev ELSE DoneValue(g)

DlgInit ==
    /\ DlgAtRest
    /\ SelAtRest
    /\ FsAtRest
    /\ CpAtRest
    /\ TrAtRest
    /\ RunAtRest
    /\ AppNotInstalled

\* smart_sync line 151: choice = conflict_resolver(preview)
AskCall ==
    /\ Len(dlgLog) < MaxAsks
    /\ \E g \in Gestures :
        /\ dlgResult' = AskResult(dlgResult, g)
        /\ dlgLog' = Append(dlgLog, [gesture |-> g,
                                     returned |-> AskResult(dlgResult, g)])
    /\ UNCHANGED <<selVars, fsVars, cpVars, trVars, runVars, appVars>>

DlgNext == AskCall

DlgSpec == DlgInit /\ [][DlgNext]_vars

DlgTypeOK ==
    /\ dlgResult \in Choices \cup {Cancel}
    /\ Len(dlgLog) <= MaxAsks

(***************************************************************************)
(* What the directional copies and the final bisync of a divergent run do  *)
(* to the two canonical saves (push_local_over_remote,                     *)
(* pull_remote_over_local, keep_both_variant, bisync): each save is its    *)
(* content with its mtime; between runs the game or another device writes  *)
(* a new save.                                                             *)
(***************************************************************************)
MaxCpClock == 3

CpContents == {"c1", "c2", "c3"}

\* The sizes of the saves: two of them have the same size.
CpSize(c) == IF c = "c3" THEN 200 ELSE 100

SaveAt(c, t) == [content |-> c, mtime |-> t]

\* `rclone copy SRC DST --update` (lines 87, 92) for the save: the file is
\* skipped when the destination's is newer; with equal mtimes it is copied
\* when the sizes differ; an older destination is replaced when it differs.
UpdateCopies(src, dst) ==
    IF dst.mtime > src.mtime THEN FALSE
    ELSE IF dst.mtime = src.mtime THEN CpSize(dst.content) # CpSize(src.content)
    ELSE dst.content # src.content

\* The outcomes of `rclone bisync --conflict-resolve newer` (lines 183-188)
\* on two saves that differ: the side that alone changed since the last
\* listing is copied to the other; when both changed the newer one wins;
\* or bisync fails.
BisyncOutcomes(l, r) ==
    {"to_remote", "to_local", "failed"}
        \cup (IF l.mtime # r.mtime THEN {"newer"} ELSE {})

\* A divergent pair of saves, before the first run.
CpInit ==
    /\ cpLocal \in {Some(SaveAt(c, t)) : c \in CpContents, t \in 1 .. 2}
    /\ cpRemote \in {Some(SaveAt(c, t)) : c \in CpContents, t \in 1 .. 2}
    /\ Val(cpLocal).content # Val(cpRemote).content
    /\ cpVariant = <<>>
    /\ cpPc = "idle"
    /\ cpChoice = "unset"
    /\ cpDecided = <<>>
    /\ cpClock = 2
    /\ SelAtRest
    /\ FsAtRest
    /\ DlgAtRest
    /\ TrAtRest
    /\ RunAtRest
    /\ AppNotInstalled

\* smart_sync lines 129-153: the saves differ and the decision is taken.
CpResolve ==
    /\ cpPc \in {"idle", "complete", "raised", "canceled"}
    /\ Val(cpLocal).content # Val(cpRemote).content
    /\ \E c \in Choices \cup {Cancel} :
        /\ cpChoice' = c
        /\ cpPc' = IF c = Cancel THEN "canceled" ELSE "act"
    /\ cpDecided' = Some([local |-> Val(cpLocal).content,
                          remote |-> Val(cpRemote).content,
                          newer |-> IF Val(cpLocal).mtime > Val(cpRemote).mtime
                                        THEN "local"
                                    ELSE IF Val(cpRemote).mtime > Val(cpLocal).mtime
                                        THEN "remote"
                                    ELSE "neither"])
    /\ UNCHANGED <<cpLocal, cpRemote, cpVariant, cpClock, selVars, fsVars,
                   dlgVars, trVars, runVars, appVars>>

\* smart_sync lines 155-163: the push, the pull, or the machine-tagged copy,
\* which shutil.copy2 writes to the one name f"{stem}_{machine_tag}{suffix}".
CpAct ==
    /\ cpPc = "act"
    /\ \E rc \in ExitCodes :
        CASE cpChoice = "keep-local" ->
                /\ cpRemote' = IF rc = 0 /\ UpdateCopies(Val(cpLocal), Val(cpRemote))
                                   THEN cpLocal ELSE cpRemote
                /\ cpPc' = IF rc = 0 THEN "bisync" ELSE "raised"
                /\ UNCHANGED <<cpLocal, cpVariant>>
          [] cpChoice = "use-cloud" ->
                /\ cpLocal' = IF rc = 0 /\ UpdateCopies(Val(cpRemote), Val(cpLocal))
                                  THEN cpRemote ELSE cpLocal
                /\ cpPc' = IF rc = 0 THEN "bisync" ELSE "raised"
                /\ UNCHANGED <<cpRemote, cpVariant>>
          [] OTHER ->
                /\ cpVariant' = IF rc = 0 THEN Some(Val(cpLocal).content)
                                          ELSE cpVariant
                /\ cpPc' = IF rc = 0 THEN "bisync" ELSE "raised"
                /\ UNCHANGED <<cpLocal, cpRemote>>
    /\ UNCHANGED <<cpChoice, cpDecided, cpClock, selVars, fsVars, dlgVars,
                   trVars, runVars, appVars>>

\* smart_sync lines 165-167: the final bisync, then "Sync complete."
CpBisync ==
    /\ cpPc = "bisync"
    /\ IF Val(cpLocal).content = Val(cpRemote).content
         THEN /\ cpPc' = "complete"
              /\ UNCHANGED <<cpLocal, cpRemote>>
         ELSE \E o \in BisyncOutcomes(Val(cpLocal), Val(cpRemote)) :
                LET toRemote == \/ o = "to_remote"
                                \/ o = "newer" /\ Val(cpLocal).mtime > Val(cpRemote).mtime
                IN  /\ cpPc' = IF o = "failed" THEN "raised" ELSE "complete"
                    /\ cpRemote' = IF o # "failed" /\ toRemote THEN cpLocal
                                                               ELSE cpRemote
                    /\ cpLocal' = IF o # "failed" /\ ~toRemote THEN cpRemote
                                                               ELSE cpLocal
    /\ UNCHANGED <<cpVariant, cpChoice, cpDecided, cpClock, selVars, fsVars,
                   dlgVars, trVars, runVars, appVars>>

\* Between two runs the game writes a new save into the profile.
CpGameSaves ==
    /\ cpPc \in {"idle", "complete", "raised", "canceled"}
    /\ cpClock < MaxCpClock
    /\ cpClock' = cpClock + 1
    /\ \E c \in CpContents \ {Val(cpLocal).content} :
        cpLocal' = Some(SaveAt(c, cpClock'))
    /\ cpPc' = "idle"
    /\ UNCHANGED <<cpRemote, cpVariant, cpChoice, cpDecided, selVars, fsVars,
                   dlgVars, trVars, runVars, appVars>>

\* Between two runs another device uploads a new save.
CpOtherDeviceSaves ==
    /\ cpPc \in {"idle", "complete", "raised", "canceled"}
    /\ cpClock < MaxCpClock
    /\ cpClock' = cpClock + 1
    /\ \E c \in CpContents \ {Val(cpRemote).content} :
        cpRemote' = Some(SaveAt(c, cpClock'))
    /\ cpPc' = "idle"
    /\ UNCHANGED <<cpLocal, cpVariant, cpChoice, cpDecided, selVars, fsVars,
                   dlgVars, trVars, runVars, appVars>>

CpNext ==
    \/ CpResolve
    \/ CpAct
    \/ CpBisync
    \/ CpGameSaves
    \/ CpOtherDeviceSaves

CpSpec == CpInit /\ [][CpNext]_vars

CpTypeOK ==
    /\ cpLocal # Nothing /\ cpRemote # Nothing
    /\ cpPc \in {"idle", "act", "bisync", "complete", "raised", "canceled"}
    /\ cpChoice \in Choices \cup {Cancel, "unset"}
    /\ cpClock \in 2 .. MaxCpClock

(***************************************************************************)
(* The directory trees the commands work on: the files under local_dir,    *)
(* under remote_dir, and under the local Backups area, each file by its    *)
(* path relative to that directory.  Every command takes the whole tree:   *)
(* rclone copy and bisync are recursive, and so is copytree.               *)
(***************************************************************************)
MaxPathLen == 5

\* f"local-{iso_now()}" and f"remote-{iso_now()}" for two seconds.
LocalBackupNames == <<"local-t1", "local-t2">>
RemoteBackupNames == <<"remote-t1", "remote-t2">>

SavePath == <<"DS2SOFS0000.sl2">>

\* The files of tree T copied under the directory dir, as far as the model
\* follows paths.
CopiedUnder(dir, T) == {dir \o q : q \in {r \in T : Len(dir \o r) <= MaxPathLen}}

\* backup_remote_dir line 42: f"{remote_dir}/Backups/remote-{iso_now()}",
\* relative to remote_dir.
RemoteBackupDir(t) == <<"Backups", RemoteBackupNames[t]>>

\* backup_local_dir line 35: local_dir.parent / "Backups" / f"local-{iso_now()}",
\* relative to the Backups area, which is a sibling of local_dir.
LocalBackupDir(t) == <<LocalBackupNames[t]>>

TrInit ==
    /\ trLocal \in {{}, {SavePath}}
    /\ trRemote \in {{}, {SavePath}}
    /\ trBackups = {}
    /\ trClock = 1
    /\ trPc = "start"
    /\ SelAtRest
    /\ FsAtRest
    /\ DlgAtRest
    /\ CpAtRest
    /\ RunAtRest
    /\ AppNotInstalled

\* smart_sync lines 120-123: neither side has a save, bisync --resync.
TrInitBisync ==
    /\ trPc = "start"
    /\ ~(SavePath \in trLocal) /\ ~(SavePath \in trRemote)
    /\ \E rc \in ExitCodes :
        /\ trLocal' = IF rc = 0 THEN trLocal \cup trRemote ELSE trLocal
        /\ trRemote' = IF rc = 0 THEN trLocal \cup trRemote ELSE trRemote
    /\ trPc' = "ended"
    /\ UNCHANGED <<trBackups, trClock, selVars, fsVars, dlgVars, cpVars,
                   runVars, appVars>>

\* smart_sync line 126: copytree(local_dir, Backups/local-<token>)
TrBackupLocal ==
    /\ trPc = "start"
    /\ SavePath \in trLocal \/ SavePath \in trRemote
    /\ trBackups' = trBackups \cup CopiedUnder(LocalBackupDir(trClock), trLocal)
    /\ trPc' = "backup_remote"
    /\ UNCHANGED <<trLocal, trRemote, trClock, selVars, fsVars, dlgVars, cpVars,
                   runVars, appVars>>

\* smart_sync line 127: rclone copy remote_dir remote_dir/Backups/remote-<token>
TrBackupRemote ==
    /\ trPc = "backup_remote"
    /\ \E rc \in ExitCodes :
        trRemote' = IF rc = 0
                        THEN trRemote \cup CopiedUnder(RemoteBackupDir(trClock), trRemote)
                        ELSE trRemote
    /\ trPc' = "act"
    /\ UNCHANGED <<trLocal, trBackups, trClock, selVars, fsVars, dlgVars, cpVars,
                   runVars, appVars>>

\* smart_sync lines 140-163: nothing to copy (equal saves, keep-both), the
\* push, the pull, or the run ends (cancel, or the copy failed).
TrAct ==
    /\ trPc = "act"
    /\ \E step \in {"none", "push", "pull", "end"} :
        /\ trRemote' = IF step = "push" THEN trRemote \cup trLocal ELSE trRemote
        /\ trLocal' = IF step = "pull" THEN trLocal \cup trRemote ELSE trLocal
        /\ trPc' = IF step = "end" THEN "ended" ELSE "bisync"
    /\ UNCHANGED <<trBackups, trClock, selVars, fsVars, dlgVars, cpVars,
                   runVars, appVars>>

\* smart_sync lines 142 and 166: bisync local_dir remote_dir
TrBisync ==
    /\ trPc = "bisync"
    /\ \E rc \in ExitCodes :
        /\ trLocal' = IF rc = 0 THEN trLocal \cup trRemote ELSE trLocal
        /\ trRemote' = IF rc = 0 THEN trLocal \cup trRemote ELSE trRemote
    /\ trPc' = "ended"
    /\ UNCHANGED <<trBackups, trClock, selVars, fsVars, dlgVars, cpVars,
                   runVars, appVars>>

\* The next run starts, in the same second or in the next.
TrNextRun ==
    /\ trPc = "ended"
    /\ trPc' = "start"
    /\ trClock' \in {t \in {trClock, trClock + 1} : t <= Len(LocalBackupNames)}
    /\ UNCHANGED <<trLocal, trRemote, trBackups, selVars, fsVars, dlgVars, cpVars,
                   runVars, appVars>>

TrNext ==
    \/ TrInitBisync
    \/ TrBackupLocal
    \/ TrBackupRemote
    \/ TrAct
    \/ TrBisync
    \/ TrNextRun

TrSpec == TrInit /\ [][TrNext]_vars

TrTypeOK ==
    /\ \A q \in trLocal \cup trRemote \cup trBackups : Len(q) <= MaxPathLen
    /\ trClock \in 1 .. Len(LocalBackupNames)
    /\ trPc \in {"start", "backup_remote", "act", "bisync", "ended"}

(***************************************************************************)
(* Reading the run's log                                                   *)
(***************************************************************************)
Idx(op) == {i \in DOMAIN cmds : cmds[i].op = op}
Count(op) == Cardinality(Idx(op))
Issued(op) == Idx(op) # {}
\* every `b` in the log has an `a` before it
Preceded(b, a) == \A j \in Idx(b) : \E i \in Idx(a) : i < j
Passed(st) == \E i \in DOMAIN path : path[i] = st
Done == pc = "done"
CopyIdx == Idx("push") \cup Idx("pull")
BisyncFailed == \E i \in Idx("bisync") \cup Idx("bisync --resync") : cmds[i].rc # 0

(***************************************************************************)
(* C1: in every divergent run both backup_local_dir and backup_remote_dir  *)
(* have been invoked before the Conflict Resolver is invoked, whatever the *)
(* decision it then returns.                                               *)
(***************************************************************************)
C1_BackupsBeforeResolver ==
    /\ Preceded("resolver", "backup_local")
    /\ Preceded("resolver", "backup_remote")
    /\ Issued("resolver") => Passed("Diverged") /\ lb # Nothing /\ rb # Nothing

C1_Witness ==
    /\ Done
    /\ Issued("resolver")
    /\ choice = "use-cloud"
    /\ local_exists /\ ~remote_exists

(***************************************************************************)
(* C2, as stated: a push or a pull is issued only if, earlier in the run,  *)
(* a backup has actually been created of each side on which a save existed *)
(* at the start of the run.                                                *)
(***************************************************************************)
C2_CopyOnlyAfterBackupsCreated ==
    \A i \in CopyIdx :
        /\ local_exists =>
             /\ \E j \in Idx("backup_local") : j < i
             /\ lb # Nothing /\ Val(lb) \in localBackups
        /\ remote_exists =>
             /\ \E j \in Idx("backup_remote") : j < i
             /\ rb # Nothing /\ Val(rb) \in remoteBackups

(***************************************************************************)
(* C2, amended: a push or a pull is issued only if, earlier in the run,    *)
(* the local backup has been created and the remote backup copy has been   *)
(* issued; the remote copy's exit status is ignored, so the remote backup  *)
(* exists only when that copy succeeded.  A run whose local backup was not *)
(* created issues no push and no pull.                                     *)
(***************************************************************************)
C2_CopyOnlyAfterLocalBackupAndRemoteAttempt ==
    /\ \A i \in CopyIdx :
        /\ \E j \in Idx("backup_local") : j < i /\ cmds[j].rc = 0
        /\ lb # Nothing /\ Val(lb) \in localBackups
        /\ \E j \in Idx("backup_remote") :
              /\ j < i
              /\ rb # Nothing
              /\ (Val(rb) \in remoteBackups) = (cmds[j].rc = 0)
    /\ (lb = Nothing \/ localBackups = {}) => CopyIdx = {}

C2_Witness ==
    /\ Issued("push")
    /\ local_exists /\ remote_exists
    /\ rb # Nothing /\ Val(rb) \notin remoteBackups
    /\ resolverGiven

(***************************************************************************)
(* C3: when the resolver returns cancel, the run issues no push, no pull   *)
(* and no bisync after it, performs no further mutation, and its result    *)
(* names the local and the remote backup path of that run.                 *)
(***************************************************************************)
C3_CancelStops ==
    choice = Cancel =>
        /\ Done
        /\ cmds[Len(cmds)].op = "resolver"
        /\ CopyIdx = {}
        /\ ~Issued("bisync") /\ ~Issued("bisync --resync") /\ ~Issued("mkdir")
        /\ ~Issued("copy2") /\ ~variantMade
        /\ ~result.raised
        /\ result.text = "Canceled. Backups:"
        /\ result.lb = lb /\ lb # Nothing /\ Val(lb) \in localBackups
        /\ result.rb = rb /\ rb # Nothing
        /\ ~ENABLED Next

C3_Witness ==
    /\ choice = Cancel
    /\ Done
    /\ result.lb # result.rb

(***************************************************************************)
(* C4: in a divergent run in which no subprocess fails, every non-cancel   *)
(* decision is followed by exactly one steady-state bisync, issued after   *)
(* at most one directional copy (keep-local: one push, no pull; use-cloud: *)
(* one pull, no push; keep-both: neither), and the run reports             *)
(* "Sync complete.".                                                       *)
(***************************************************************************)
NoCheckedSubprocessFailed ==
    \A i \in DOMAIN cmds :
        cmds[i].op \in {"push", "pull", "bisync", "bisync --resync"} => cmds[i].rc = 0

StartedBothAbsent == pc # "start" /\ ~local_exists /\ ~remote_exists

NothingButResyncBisync ==
    /\ Count("bisync --resync") = 1
    /\ Count("bisync") = 0
    /\ ~Issued("compare") /\ ~Issued("resolver") /\ CopyIdx = {}
    /\ ~Issued("backup_local") /\ ~Issued("backup_remote")
    /\ localBackups = {} /\ remoteBackups = {} /\ lb = Nothing /\ rb = Nothing

C5_BothAbsentInitializes ==
    (Done /\ StartedBothAbsent) =>
        /\ NothingButResyncBisync
        /\ result = Returned("Initialized (no saves yet).")

(***************************************************************************)
(* C5, amended: whenever neither side has a save at the start, the run     *)
(* issues exactly one bisync in resync mode, evaluates no comparison,      *)
(* creates no backup, invokes no resolver and no directional copy; it      *)
(* reports "Initialized (no saves yet)." when that bisync exits with       *)
(* status 0, and raises the bisync's failure otherwise.                    *)
(***************************************************************************)
C5_BothAbsentInitializesUnlessBisyncFails ==
    /\ StartedBothAbsent => pc \in {"init_bisync", "done"} /\ path[2] = "BothAbsent"
    /\ (Done /\ StartedBothAbsent) =>
        /\ NothingButResyncBisync
        /\ ~BisyncFailed => result = Returned("Initialized (no saves yet).")
        /\ BisyncFailed => result.raised /\ result.text = "RuntimeError"

C5_Witness ==
    /\ Done
    /\ StartedBothAbsent
    /\ localFile = Nothing /\ remoteSave = Nothing
    /\ result = Returned("Initialized (no saves yet).")

(***************************************************************************)
(* C6, as stated: when both sides have a save and they are found equal,    *)
(* the run has created both backups before the equality check, then issues *)
(* exactly one steady-state bisync, no push or pull, does not invoke the   *)
(* resolver, and reports "Up to date.".                                    *)
(***************************************************************************)
FoundEqual == Done /\ local_exists /\ remote_exists /\ equal

OnlySteadyBisyncAfterCompare ==
    /\ Count("bisync") = 1
    /\ Count("bisync --resync") = 0
    /\ \A i \in Idx("compare") : \A j \in Idx("bisync") : i < j
    /\ CopyIdx = {} /\ ~Issued("copy2")
    /\ ~Issued("resolver")

C6_EqualIsUpToDate ==
    FoundEqual =>
        /\ Preceded("compare", "backup_local") /\ Preceded("compare", "backup_remote")
        /\ lb # Nothing /\ Val(lb) \in localBackups
        /\ rb # Nothing /\ Val(rb) \in remoteBackups
        /\ OnlySteadyBisyncAfterCompare
        /\ result = Returned("Up to date.")

(***************************************************************************)
(* C6, amended: when both sides have a save and they are found equal, the  *)
(* run has created the local backup and issued the remote backup copy      *)
(* (whose failure is ignored) before the equality check, then issues       *)
(* exactly one steady-state bisync, no push or pull, does not invoke the   *)
(* resolver, and reports "Up to date." unless that bisync fails, in which  *)
(* case it raises the failure.                                             *)
(***************************************************************************)
C6_EqualIsUpToDateUnlessBisyncFails ==
    /\ (equal /\ pc # "done") => pc = "equal_bisync"
    /\ FoundEqual =>
        /\ Issued("compare")
        /\ Preceded("compare", "backup_local") /\ Preceded("compare", "backup_remote")
        /\ lb # Nothing /\ Val(lb) \in localBackups
        /\ rb # Nothing
        /\ \A j \in Idx("backup_remote") : (Val(rb) \in remoteBackups) = (cmds[j].rc = 0)
        /\ OnlySteadyBisyncAfterCompare
        /\ ~BisyncFailed => result = Returned("Up to date.")
        /\ BisyncFailed => result.raised /\ result.text = "RuntimeError"

C6_Witness ==
    /\ FoundEqual
    /\ result = Returned("Up to date.")
    /\ Val(remote_entry).hasSha1
    /\ Val(rb) \in remoteBackups

(***************************************************************************)
(* The equality check of a run, once it has been evaluated: the local file *)
(* it read (Nothing when the file had disappeared) and the remote entry.   *)
(***************************************************************************)
Compared == Issued("compare")
SameContent == localFile # Nothing /\ Val(localFile).content = Val(remote_entry).content
SameSize ==
    /\ localFile # Nothing
    /\ Val(remote_entry).size.kind = "int"
    /\ Val(localFile).size = Val(remote_entry).size.val

(***************************************************************************)
(* C7, as stated: for a local save and a remote entry that both exist,     *)
(* when the remote entry carries a content digest the equality decision is *)
(* true if and only if the local file's digest equals the remote digest,   *)
(* whatever the local size and the remote Size field are.  (Runs in which  *)
(* the comparison itself failed are left out: they are C9's.)              *)
(***************************************************************************)
C7_DigestDecides ==
    (Compared /\ ~cmpExc
        /\ (Val(remote_entry).hasSha1 \/ Val(remote_entry).hasMd5)) =>
            (equal <=> SameContent)

(***************************************************************************)
(* C7, amended: when the remote entry carries a SHA-1 digest, the equality *)
(* decision is true if and only if the local file can be read and its      *)
(* SHA-1 digest equals the remote one, whatever the sizes are.  An entry   *)
(* that carries only a digest of another algorithm (MD5) is compared by    *)
(* size.                                                                   *)
(***************************************************************************)
C7_Sha1Decides ==
    (Compared /\ Val(remote_entry).hasSha1) =>
        /\ equal <=> (SameContent /\ Val(localFile).readable)
        /\ cmpExc <=> (localFile = Nothing \/ ~Val(localFile).readable)

C7_Witness ==
    /\ Compared
    /\ Val(remote_entry).hasSha1
    /\ equal
    /\ Val(localFile).size = 100
    /\ Val(remote_entry).size \in {[kind |-> "int", val |-> 200],
                                   [kind |-> "bad", val |-> 0]}

(***************************************************************************)
(* C8: when the remote entry carries no digest, the equality decision      *)
(* depends on byte size alone: it is true if and only if the local file    *)
(* size equals the remote-reported size; an entry with no size never       *)
(* compares equal.                                                         *)
(***************************************************************************)
C8_SizeFallback ==
    (Compared /\ ~Val(remote_entry).hasSha1 /\ ~Val(remote_entry).hasMd5) =>
        /\ equal <=> SameSize
        /\ Val(remote_entry).size.kind = "missing" => ~equal

C8_Witness ==
    /\ Compared
    /\ ~Val(remote_entry).hasSha1 /\ ~Val(remote_entry).hasMd5
    /\ equal
    /\ Val(localFile).size = 100
    /\ Val(localFile).content # Val(remote_entry).content
    /\ ~Val(localFile).readable

(***************************************************************************)
(* C9: any failure while evaluating the equality comparison yields "not    *)
(* equal": the run takes the conflict-resolution path (with a resolver,    *)
(* the resolver is asked), never the "Up to date." path, and the failure   *)
(* is not raised to the caller (the only failure a finished run delivers   *)
(* is that of a later rclone command).                                     *)
(***************************************************************************)
C9_CompareFailureIsDivergence ==
    /\ cmpExc => ~equal /\ pc # "equal_bisync" /\ result.text # "Up to date."
    /\ (cmpExc /\ Done) =>
        /\ Passed("Diverged")
        /\ resolverGiven => Issued("resolver")
        /\ result.raised => result.text = "RuntimeError"

(***************************************************************************)
(* C10: when exactly one side has a save, the run is treated as diverged:  *)
(* it goes to Resolving and never reports "Up to date." or                 *)
(* "Initialized (no saves yet).".                                          *)
(***************************************************************************)
OneSided == pc # "start" /\ local_exists # remote_exists

C10_OneSidedDiverges ==
    OneSided =>
        /\ ~equal
        /\ ~Compared
        /\ pc \notin {"init_bisync", "equal_bisync"}
        /\ ~Issued("bisync --resync")
        /\ result.text \notin {"Up to date.", "Initialized (no saves yet)."}
        /\ path[2] = "Comparing"
        /\ pc \in {"resolve", "act", "final_bisync"} => Passed("Diverged")
        /\ pc \in {"act", "final_bisync"} => Passed("Resolving")
        /\ (Done /\ rb # Nothing) => Passed("Diverged") /\ Passed("Resolving")

C10_Witness ==
    /\ OneSided
    /\ Done
    /\ ~local_exists
    /\ result = Returned("Sync complete.")
    /\ Passed("Resolving")

(***************************************************************************)
(* C11: in every run that reaches Diverged the resolver is invoked exactly *)
(* once, and any push or pull issued is the one selected by the decision   *)
(* the resolver returned in that run; no directional copy is issued on a   *)
(* decision the resolver did not return, runs started from the CLI --sync  *)
(* entry point included.                                                   *)
(***************************************************************************)
CopyMatchesChoice ==
    /\ Issued("push") => choice = "keep-local"
    /\ Issued("pull") => choice = "use-cloud"
    /\ Count("push") + Count("pull") <= 1

C11_ResolverDecidesEveryCopy ==
    /\ (Passed("Diverged") /\ pc \in {"act", "final_bisync"}) =>
            Count("resolver") = 1
    /\ Preceded("push", "resolver")
    /\ Preceded("pull", "resolver")
    /\ CopyMatchesChoice

(***************************************************************************)
(* C11, amended: the resolver is invoked at most once in a run, and only   *)
(* in a run that reached Diverged and was given a resolver.  Such a run    *)
(* gets past the decision only with exactly one answer of the resolver,    *)
(* and any push or pull it issues comes after that answer and is the one   *)
(* the answer selects.  A run without resolver (the CLI --sync entry       *)
(* point) never invokes one: its decision is keep-local, and the only      *)
(* directional copy it issues is the push.                                 *)
(***************************************************************************)
C11_ResolverOrDefaultDecidesEveryCopy ==
    /\ Count("resolver") <= 1
    /\ Issued("resolver") => resolverGiven /\ Passed("Diverged")
    /\ CopyMatchesChoice
    /\ resolverGiven =>
        /\ pc \in {"act", "final_bisync"} =>
                Count("resolver") = 1 /\ choice \in Choices
        /\ Preceded("push", "resolver")
        /\ Preceded("pull", "resolver")
    /\ ~resolverGiven =>
        /\ ~Issued("pull")
        /\ pc \in {"act", "final_bisync"} => choice = "keep-local"
        /\ Issued("push") => Passed("Diverged") /\ choice = "keep-local"

C11_Witness ==
    /\ Done
    /\ resolverGiven
    /\ Count("resolver") = 1
    /\ choice = "use-cloud"
    /\ \E i \in Idx("pull") : cmds[i].rc = 0
    /\ result = Returned("Sync complete.")

(***************************************************************************)
(* C12: in every divergent run resolved with keep-both, the resolution     *)
(* step neither deletes nor modifies the original local save file, and     *)
(* after the step an additional, machine-tagged file exists in the profile *)
(* directory; this holds in every divergent case, also when only the       *)
(* remote side has a save.                                                 *)
(***************************************************************************)
KeepBothStep == pc = "act" /\ choice = "keep-both"

CheckedOps == {"push", "pull", "bisync", "bisync --resync"}
FailedChecked == {i \in DOMAIN cmds : cmds[i].op \in CheckedOps /\ cmds[i].rc # 0}

EndsRunAt(i) ==
    /\ i = Len(cmds)
    /\ Done
    /\ result.raised
    /\ result.text = "RuntimeError"
    /\ Count(cmds[i].op) = 1
    /\ path[Len(path)] # "Done"
    /\ cmds[i].op \in {"push", "pull"} =>
            ~Issued("bisync") /\ ~Passed("Reconciling")

C13_FailureEndsRunWithOutput ==
    \A i \in FailedChecked :
        /\ EndsRunAt(i)
        /\ result.msg = <<"output", cmds[i].out>>

(***************************************************************************)
(* C13, amended: if a push, a pull or a bisync subprocess exits with a     *)
(* non-zero status, the run ends immediately with a failure; the failed    *)
(* command is not re-run and no later step of the run is executed.  The    *)
(* message of the failure is the captured process output when there is     *)
(* any, and "Command failed: <command line>" when the process printed      *)
(* nothing.                                                                *)
(***************************************************************************)
C13_FailureEndsRunWithOutputOrCommand ==
    \A i \in FailedChecked :
        /\ EndsRunAt(i)
        /\ cmds[i].out # "" => result.msg = <<"output", cmds[i].out>>
        /\ cmds[i].out = "" => result.msg = <<"Command failed", cmds[i].op>>

C13_Witness ==
    /\ Done
    /\ \E i \in Idx("pull") : cmds[i].rc # 0 /\ cmds[i].out # ""
    /\ result.raised
    /\ lb # Nothing

(***************************************************************************)
(* C14: a failure of the remote backup copy command does not abort the     *)
(* run: the run continues to the comparison and resolution steps exactly   *)
(* as it would after a successful remote backup.                           *)
(***************************************************************************)
C14_RemoteBackupFailureContinues ==
    [][pc = "backup_remote" =>
          /\ pc' = "compare"
          /\ result' = Running
          /\ rb' # Nothing
          /\ cmds'[Len(cmds')].op = "backup_remote"
          /\ <<local_exists', remote_exists', remote_entry', localFile', lb',
               path', choice'>>
                = <<local_exists, remote_exists, remote_entry, localFile, lb,
                    path, choice>>]_vars

C14_Witness ==
    /\ \E i \in Idx("backup_remote") : cmds[i].rc # 0
    /\ remoteBackups = {}
    /\ Compared
    /\ Issued("resolver")
    /\ result = Returned("Sync complete.")

(***************************************************************************)
(* C15: a failure while creating the local backup (the recursive copy of   *)
(* the profile directory fails) is non-fatal: the run is not aborted and   *)
(* proceeds to the comparison and resolution steps.                        *)
(***************************************************************************)
LocalBackupFailed == \E i \in Idx("backup_local") : cmds[i].rc # 0

C15_LocalBackupFailureContinues ==
    LocalBackupFailed =>
        /\ result.text # "shutil.Error"
        /\ Done => Issued("backup_remote")

(***************************************************************************)
(* C16: when a run fails after its backups were created, the single        *)
(* failure delivered to the caller carries both the failure message and    *)
(* the locations of the backups already created.                           *)
(***************************************************************************)
FailedAfterBackups ==
    Done /\ result.raised /\ lb # Nothing /\ rb # Nothing

C16_FailureCarriesBackupLocations ==
    FailedAfterBackups =>
        /\ result.msg # <<>>
        /\ result.lb = lb
        /\ result.rb = rb

(***************************************************************************)
(* C17: across any sequence of application startups and sync runs under    *)
(* one host identity, resync mode is used exactly once: for the first      *)
(* reconciliation on that host, after which the per-host flag is set, and  *)
(* no later startup or sync run on that host issues a resync-mode bisync.  *)
(***************************************************************************)
HostResyncs == {i \in DOMAIN hostCmds : hostCmds[i].mode = "bisync --resync"}

ResyncsDone == {i \in HostResyncs : hostCmds[i].rc = 0}

C17_ResyncOncePerHost ==
    /\ Cardinality(ResyncsDone) <= 1
    /\ \A i \in HostResyncs : \A j \in ResyncsDone : i <= j
    /\ resynced <=> ResyncsDone # {}

(***************************************************************************)
(* C19: within the application at most one sync operation is in flight at  *)
(* any time: a sync run (or the startup baseline bisync) runs to           *)
(* completion before another sync run may start, so a second "Sync now"    *)
(* request made while one is running starts no concurrent run.             *)
(***************************************************************************)
InFlight == syncThreads + (IF startupPc = "resync" THEN 1 ELSE 0)

C19_OneSyncInFlight == InFlight <= 1

(***************************************************************************)
(* C18: every run follows only the transitions Start to BothAbsent or      *)
(* Comparing, Comparing to Equal or Diverged, Diverged to Resolving,       *)
(* Resolving to Reconciling or Canceled, Reconciling to Done: Canceled is  *)
(* reached only from Resolving (after the backups and a resolver           *)
(* decision), and a run reports "Sync complete." only after passing        *)
(* through Resolving and the final bisync.                                 *)
(***************************************************************************)
Transitions ==
    {<<"Start", "BothAbsent">>, <<"Start", "Comparing">>,
     <<"Comparing", "Equal">>, <<"Comparing", "Diverged">>,
     <<"Diverged", "Resolving">>,
     <<"Resolving", "Reconciling">>, <<"Resolving", "Canceled">>,
     <<"Reconciling", "Done">>}

C18_OnlyListedTransitions ==
    /\ path[1] = "Start"
    /\ \A i \in 1 .. Len(path) - 1 : <<path[i], path[i + 1]>> \in Transitions
    /\ Passed("BothAbsent") => ~local_exists /\ ~remote_exists
    /\ Passed("Equal") => equal /\ Issued("compare")
    /\ Passed("Diverged") => ~equal
    /\ Passed("Reconciling") => choice \in Choices
    /\ (Passed("Canceled") \/ result.text = "Canceled. Backups:") =>
        /\ path[Len(path) - 1] = "Resolving" /\ path[Len(path)] = "Canceled"
        /\ lb # Nothing /\ rb # Nothing
        /\ Preceded("resolver", "backup_local")
        /\ Preceded("resolver", "backup_remote")
        /\ Count("resolver") = 1 /\ cmds[Len(cmds)].op = "resolver"
        /\ result = CancelResult(lb, rb)
    /\ result = Returned("Sync complete.") =>
        /\ Passed("Resolving")
        /\ path[Len(path)] = "Done"
        /\ cmds[Len(cmds)] \in {EvOut("bisync", 0, o) : o \in Outputs}
    /\ result = Returned("Up to date.") => path[Len(path)] = "Equal"
    /\ result = Returned("Initialized (no saves yet).") =>
            path[Len(path)] = "BothAbsent"

C18_Witness ==
    /\ Done
    /\ path = <<"Start", "Comparing", "Diverged", "Resolving", "Canceled">>
    /\ result = CancelResult(lb, rb)

(***************************************************************************)
(* C20: whenever the remote listing query fails (non-zero exit or          *)
(* unparsable output), rclone_lsjson returns an empty list instead of      *)
(* failing its caller, and the run then proceeds exactly as it does when   *)
(* the remote truly has no save entry.                                     *)
(***************************************************************************)
ListingFailed == pc # "start" /\ cmds[1] = Ev("lsjson", 1)

C20_FailedListingIsNoRemoteSave ==
    ListingFailed =>
        /\ remote_entry = Nothing
        /\ ~remote_exists
        /\ ~(Done /\ Len(cmds) = 1)
        /\ ~Issued("compare") /\ ~equal /\ result.text # "Up to date."
        /\ local_exists =>
              /\ path[2] = "Comparing"
              /\ ~Issued("bisync --resync")
              /\ Len(cmds) > 1 => cmds[2].op = "backup_local"
        /\ ~local_exists =>
              /\ path = <<"Start", "BothAbsent">>
              /\ Len(cmds) > 1 =>
                    /\ Done
                    /\ Len(cmds) = 3
                    /\ cmds[2].op = "mkdir"
                    /\ cmds[3].op = "bisync --resync"

C20_Witness ==
    /\ ListingFailed
    /\ remoteSave # Nothing
    /\ ~local_exists
    /\ result = Returned("Initialized (no saves yet).")

(***************************************************************************)
(* C21: remote_find_save returns the entry for the first name of the       *)
(* canonical-basename list that appears in the remote listing as a         *)
(* non-directory entry, ignoring directory entries of the same name, and   *)
(* returns absent exactly when no canonical basename appears as a file.    *)
(***************************************************************************)
ListedFiles == {listing[i] : i \in {j \in DOMAIN listing : ~listing[j].isDir}}

CanonicalListed ==
    {i \in DOMAIN SAVE_BASENAMES :
        \E e \in ListedFiles : e.name = SAVE_BASENAMES[i]}

C21_FirstCanonicalFileEntry ==
    selPc = "done" =>
        IF CanonicalListed = {}
            THEN selRemote = Nothing
            ELSE /\ selRemote # Nothing
                 /\ Val(selRemote) \in ListedFiles
                 /\ Val(selRemote).name = SAVE_BASENAMES[MinOf(CanonicalListed)]

C21_Witness ==
    /\ selPc = "done"
    /\ listing = <<[name |-> SAVE_BASENAMES[1], isDir |-> TRUE],
                   [name |-> SAVE_BASENAMES[2], isDir |-> FALSE]>>
    /\ selRemote = Some([name |-> SAVE_BASENAMES[2], isDir |-> FALSE])

(***************************************************************************)
(* C22: whenever at least one canonical basename exists in the profile     *)
(* directory, find_save_file returns the first existing one in the fixed   *)
(* list order, regardless of modification times, even when a               *)
(* non-canonically named save file in the same directory is newer.         *)
(***************************************************************************)
LocalSelected == selPc \in {"find_remote", "done"}

CanonicalPresent ==
    {i \in DOMAIN SAVE_BASENAMES : dirFiles[SAVE_BASENAMES[i]] > 0}

C22_CanonicalFirst ==
    (LocalSelected /\ CanonicalPresent # {}) =>
        selLocal = Some([name |-> SAVE_BASENAMES[MinOf(CanonicalPresent)],
                         exists |-> TRUE])

C22_Witness ==
    /\ LocalSelected
    /\ dirFiles[SAVE_BASENAMES[1]] = 1
    /\ dirFiles[SAVE_BASENAMES[2]] = 2
    /\ dirFiles[<<"a", "sl2">>] = 2
    /\ Val(selLocal).name = SAVE_BASENAMES[1]

(***************************************************************************)
(* C23: when no canonical basename exists in the directory, find_save_file *)
(* returns the most recently modified file with the save extension; when   *)
(* no such file exists either, it returns the path of the first canonical  *)
(* basename in that directory, which does not exist, and it does not fail. *)
(***************************************************************************)
SaveFilesPresent == {n \in FileNames : n[2] = "sl2" /\ dirFiles[n] > 0}

C23_NewestSaveOrPlaceholder ==
    (LocalSelected /\ CanonicalPresent = {}) =>
        /\ selLocal # Nothing
        /\ IF SaveFilesPresent # {}
               THEN /\ Val(selLocal).name \in SaveFilesPresent
                    /\ Val(selLocal).exists
                    /\ \A n \in SaveFilesPresent :
                          dirFiles[n] <= dirFiles[Val(selLocal).name]
               ELSE selLocal = Some([name |-> SAVE_BASENAMES[1], exists |-> FALSE])

C23_Witness ==
    /\ LocalSelected
    /\ CanonicalPresent = {}
    /\ dirFiles[<<"a", "sl2">>] = 1
    /\ dirFiles[<<"b", "sl2">>] = 2
    /\ dirFiles[<<"a", "txt">>] = 2
    /\ Val(selLocal).name = <<"b", "sl2">>

(***************************************************************************)
(* C30: whenever the equality check is evaluated, the local save file and  *)
(* the remote entry being compared have the same basename: the local and   *)
(* the remote selection never pair two differently named save files as     *)
(* counterparts.                                                           *)
(***************************************************************************)
BothSelected ==
    selPc = "done" /\ Val(selLocal).exists /\ selRemote # Nothing

C30_CounterpartsShareBasename ==
    BothSelected => Val(selLocal).name = Val(selRemote).name

(***************************************************************************)
(* Claims about the save root, under FsSpec.                               *)
(***************************************************************************)
\* A step that is a call of pick_profile_dir.
PickStep == picks' # picks

\* A step that is a call of backup_local_dir, and one that returned.
BackupAttempt ==
    /\ fsOp' \in {"backup", "backup_failed"}
    /\ <<fsOp, fsBackups, root>>' # <<fsOp, fsBackups, root>>

BackupStep == BackupAttempt /\ fsOp' = "backup"

\* C24: when no directory of the root qualifies as a profile, pick_profile_dir
\* creates the zero-identifier placeholder directory and nothing else, with
\* no file in it, and returns it; calling it again on the root it left
\* returns the same directory and leaves the root as it is.
C24_PlaceholderCreatedOnce ==
    [][(PickStep /\ ProfileDirs(root) = {}) =>
          /\ active' = Some(PlaceholderProfile)
          /\ root'[PlaceholderProfile].kind = "dir"
          /\ root'[PlaceholderProfile].saves = {}
          /\ \A n \in RootNames \ {PlaceholderProfile} : root'[n] = root[n]
          /\ \A again \in PickProfileDir(root', fsClock') :
                again.dir = PlaceholderProfile /\ again.root = root']_vars

C24_Witness ==
    /\ fsOp = "pick"
    /\ picks = <<PlaceholderProfile>>
    /\ root[ShortDir].kind = "dir"
    /\ root[SteamProfile].kind = "none"

\* The profile directories that hold a save file.
WithSaves(r) == {n \in ProfileDirs(r) : r[n].saves # {}}

\* C25: when some candidate profile holds a save file, pick_profile_dir
\* returns one that does and whose newest save is the latest of all,
\* whatever the directories' own mtimes; when none holds a save file it
\* returns a most recently modified profile directory.
C25_NewestSaveWins ==
    [][(PickStep /\ ProfileDirs(root) # {}) =>
          LET d == Val(active')
          IN  IF WithSaves(root) # {}
                THEN /\ d \in WithSaves(root)
                     /\ \A k \in WithSaves(root) :
                            NewestSave(root[k]) <= NewestSave(root[d])
                ELSE /\ d \in ProfileDirs(root)
                     /\ \A k \in ProfileDirs(root) :
                            root[k].mtime <= root[d].mtime]_vars

\* The profile with the older directory is chosen for its newer save.
C25_Witness ==
    /\ fsOp = "pick"
    /\ active = Some(SteamProfile)
    /\ root[PlaceholderProfile].kind = "dir"
    /\ root[PlaceholderProfile].saves # {}
    /\ root[PlaceholderProfile].mtime > root[SteamProfile].mtime
    /\ NewestSave(root[SteamProfile]) > NewestSave(root[PlaceholderProfile])

\* C29: pick_profile_dir never returns the Backups directory that
\* backup_local_dir creates beside the profile directories.
C29_NeverPicksBackups ==
    \A i \in 1 .. Len(picks) : picks[i] # BackupsDir

\* The names of the local backups.
Tokens(B) == {b.token : b \in B}

\* C27 as stated: every call of backup_local_dir adds one more local backup
\* and leaves every earlier one as it was.
C27_EveryBackupStepAddsOne ==
    [][BackupAttempt =>
          /\ fsBackups \subseteq fsBackups'
          /\ Cardinality(fsBackups') = Cardinality(fsBackups) + 1]_vars

\* C27: a call of backup_local_dir that returns leaves a backup named by the
\* current second, holding every save of the profile; no step adds a backup
\* of another name, and no step deletes or rewrites a backup named by
\* another second than the current one.
C27_BackupsOfOtherSecondsKept ==
    [][/\ \A b \in fsBackups :
            (~BackupAttempt \/ b.token # fsClock) => b \in fsBackups'
       /\ Tokens(fsBackups') \subseteq Tokens(fsBackups) \cup {fsClock}
       /\ BackupStep =>
            \E b \in fsBackups' :
                b.token = fsClock /\ root[Val(active)].saves \subseteq b.saves]_vars

\* Two backups of different seconds, the earlier one complete and kept.
C27_Witness ==
    /\ fsOp = "backup"
    /\ Cardinality(fsBackups) = 2
    /\ \E b \in fsBackups : b.token < fsClock /\ b.saves # {}

(***************************************************************************)
(* Claims about the bisync command line and about termination, under Spec. *)
(***************************************************************************)
\* C26: every bisync the run issues, with --resync or without, carries
\* --create-empty-src-dirs and a --backup-dir option.
C26_BisyncKeepsOverwrittenFiles ==
    \A i \in DOMAIN cmds :
        \A resync \in BOOLEAN :
            cmds[i].op = BisyncCmd(resync) =>
                {"--create-empty-src-dirs", "--backup-dir"}
                    \subseteq BisyncOptions(resync)

\* The results a run can end with.
ListedResults ==
    {Returned("Initialized (no saves yet)."), Returned("Up to date."),
     Returned("Sync complete.")}

TerminalResult ==
    result.raised \/ result \in ListedResults \/ result = CancelResult(lb, rb)

\* The directional copies and reconciliations the run started.
Transfers == CopyIdx \cup Idx("bisync") \cup Idx("bisync --resync")

HostSteady == {i \in DOMAIN hostCmds : hostCmds[i].mode = "bisync"}

LastCmd == hostCmds[Len(hostCmds)]

\* C31: every steady-state bisync issued on the host, by a GUI run or a CLI
\* run, comes after a resync-mode bisync that succeeded on this host.
C31_SteadyOnlyAfterResync ==
    \A i \in HostSteady : \E j \in ResyncsDone : j < i

\* C32: the per-host flag becomes set only in the step where the startup's
\* resync-mode bisync returns without error; a failed startup resync leaves
\* the flag as it was; and a startup that gets as far as the flag while it
\* is unset goes on to the resync again.
C32_FlagFollowsStartupResync ==
    [][/\ (resynced' /\ ~resynced) =>
            /\ Len(hostCmds') = Len(hostCmds) + 1
            /\ hostCmds'[Len(hostCmds')] = HostCmd(BisyncCmd(TRUE), "startup", 0)
       /\ (startupPc = "resync" /\ startupPc' = "finished"
                /\ hostCmds'[Len(hostCmds')].rc # 0) => resynced' = resynced
       /\ (startupPc = "ensure" /\ startupPc' \in {"resync", "finished"}
                /\ ~resynced) => startupPc' = "resync"]_vars

\* The startup resync failed, and a later startup is at the resync again.
C32_Witness ==
    /\ hostCmds = <<HostCmd(BisyncCmd(TRUE), "startup", 1)>>
    /\ startupPc = "resync"
    /\ ~resynced

\* C33: on a host whose flag is set, a steady-state bisync is issued only
\* against a remote location that a resync-mode bisync has succeeded against.
C33_ResyncBeforeSteadyOnNewRemote ==
    (hostCmds # <<>> /\ LastCmd.mode = "bisync" /\ resynced) =>
        Val(lastMeta).remote \in resyncedLocs

\* C35: every rclone command is issued by a process in which ensure_rclone
\* has returned.
C35_NoCommandBeforeEnsure ==
    hostCmds # <<>> => Val(lastMeta).ensured

(***************************************************************************)
(* Claims about the conflict dialog, under DlgSpec.                        *)
(***************************************************************************)
\* C34: a dialog closed without a button or the Escape key makes ask return
\* the cancel value, whatever the earlier dialogs of the process returned.
C34_CloseReturnsCancel ==
    \A i \in DOMAIN dlgLog :
        dlgLog[i].gesture = "close" => dlgLog[i].returned = Cancel

(***************************************************************************)
(* Claims about what a resolution leaves on the two sides, under CpSpec.   *)
(***************************************************************************)
\* C36, in the case it names: when a run resolved with keep-local has
\* completed and the remote save was the newer one at the decision, the
\* remote save has the content the local save had then; when a run resolved
\* with use-cloud has completed and the local save was the newer one, the
\* local save has the content the remote save had.
C36_DecisionWins ==
    cpPc = "complete" =>
        /\ (cpChoice = "keep-local" /\ Val(cpDecided).newer = "remote") =>
                Val(cpRemote).content = Val(cpDecided).local
        /\ (cpChoice = "use-cloud" /\ Val(cpDecided).newer = "local") =>
                Val(cpLocal).content = Val(cpDecided).remote

\* C38: a keep-both resolution that finds the artifact of an earlier one
\* leaves that file as it is.
C38_KeepBothLeavesEarlierArtifact ==
    [][(cpPc = "act" /\ cpChoice = "keep-both" /\ cpVariant # Nothing) =>
            cpVariant' = cpVariant]_vars

(***************************************************************************)
(* Claims about where the backups lie, under TrSpec.                       *)
(***************************************************************************)
\* How many times the directory name d occurs in the path q.
Occurs(d, q) == Cardinality({i \in DOMAIN q : q[i] = d})

\* C37: no backup is reconciled to the local directory, and no backup holds
\* a copy of another backup: under local_dir no path goes through a Backups
\* directory, under remote_dir none goes through two, and in the local
\* Backups area none goes through a further one.
C37_BackupsStayOutside ==
    /\ \A q \in trLocal : Occurs("Backups", q) = 0
    /\ \A q \in trRemote : Occurs("Backups", q) <= 1
    /\ \A q \in trBackups : Occurs("Backups", q) = 0

====
